---- MODULE Spec2Model ----
(***************************************************************************)
(* A model of the simulation core of growingstars: the plant registry      *)
(* (PlantManagementSystem), the clock (TimeManager), the stamina clock     *)
(* (StaminaSystem), the motion controller (PlayerMovementSystem) and the   *)
(* per-frame orchestration of GameEngine.updateGameState.                  *)
(*                                                                         *)
(* Times read from performance.now() are integers in milliseconds, and     *)
(* positions and lengths are counted in tenths of a pixel (Px converts     *)
(* whole pixels).                                                          *)
(***************************************************************************)
EXTENDS Integers, Sequences, FiniteSets, TLC

VARIABLES
    now,              \* performance.now(), ms
    plantedEntities,  \* PlantManagementSystem.plantedEntities
    nextId,           \* allocation counter: the identity of the next PlantEntity object
    ret,              \* the last call made: its name, arguments and return value
    timeState,        \* TimeManager.state
    stamina,          \* StaminaSystem.state
    penaltyLog,       \* the calls of the onCoinsPenalty callback: <<day, amount>>
    listeners,        \* TimeManager.listeners, each callback by its name
    delivered,        \* the calls of listeners made by the last notifyListeners:
                      \* <<[listener, state]>>, state being the object as received
    playerCharacter,  \* PlayerMovementSystem.playerCharacter
    spriteFrame,      \* PlayerMovementSystem.spriteFrameWidth, spriteFrameHeight
    collisionRects,   \* PlayerMovementSystem.collisionRects
    worldBounds,      \* PlayerMovementSystem.worldBounds
    frames,           \* the number of frames played so far
    engine,           \* the fields of GameEngine
    inventory,        \* the fields of the engine's InventorySystem
    pressedKeys,      \* the keys the KeyboardInputManager held down in the last frame
    dispatched,       \* the handlers the last frame ran
    midPointCalls     \* the calls made of the midpoint callback of the last
                      \* transition started

plantVars == <<plantedEntities, nextId>>
clockVars == <<timeState, stamina, penaltyLog, listeners, delivered>>
listenerVars == <<listeners, delivered>>
moveVars == <<playerCharacter, spriteFrame, collisionRects, worldBounds, frames>>
engineVars == <<engine, inventory, pressedKeys, dispatched, midPointCalls>>
outsidePlants == <<clockVars, moveVars, engineVars>>
outsideClock == <<now, plantVars, moveVars, engineVars>>
outsideMovement == <<now, plantVars, clockVars, engineVars>>
vars == <<now, plantedEntities, nextId, ret, timeState, stamina, penaltyLog,
          listeners, delivered,
          playerCharacter, spriteFrame, collisionRects, worldBounds, frames,
          engine, inventory, pressedKeys, dispatched, midPointCalls>>

(***************************************************************************)
(* Bounds of the model.                                                    *)
(***************************************************************************)
MaxTicks == 2         \* performance.now() runs up to MaxTicks * 2000 ms
MaxPlants == 2        \* plants alive at once
MaxAllocs == 3        \* PlantEntity objects ever created
MaxDay == 3           \* the clock's day number runs up to MaxDay
MaxMoves == 3         \* frames of the motion controller played on its own
MaxFrames == 4
MaxClockDay == 41
MaxHeld == 3
MaxCoins == 30
MaxWater == 12
MaxFadeFrames == 5     \* frames of the engine played during a fade
MaxFarmFrames == 6     \* frames of the engine played while farming
MaxBought == 2         \* seeds bought in the shop

(***************************************************************************)
(* Program constants.                                                      *)
(***************************************************************************)
growthDurationSeconds == 4
spacingThreshold == 30
tileSize == 32

Null == -1            \* null / undefined of a nullable number (times are >= 0)

Abs(n) == IF n < 0 THEN -n ELSE n
Coalesce(a, b) == IF a = Null THEN b ELSE a     \* a ?? b

\* Math.floor(a / b) for b > 0
FloorDiv(a, b) == a \div b

\* a length of n pixels
Px(n) == n * 10

\* Math.floor(c / tileSize)
TileOf(c) == FloorDiv(c, Px(tileSize))

(***************************************************************************)
(* Inputs of the plant registry: the elapsed times between calls, the      *)
(* click positions, the plant types.                                       *)
(***************************************************************************)
TimeSteps == {2000}
ClickPositions ==
    {[x |-> Px(100), y |-> Px(100)], [x |-> Px(110), y |-> Px(110)],
     [x |-> Px(140), y |-> Px(100)], [x |-> Px(110), y |-> Px(130)]}
ClickTiles == {[x |-> TileOf(p.x), y |-> TileOf(p.y)] : p \in ClickPositions}
PlantTypes == {"eye"}
WaterReach == {Px(30)}

\* Array.prototype.splice(i, 1)
SeqRemoveAt(s, i) ==
    [k \in 1..(Len(s) - 1) |-> IF k < i THEN s[k] ELSE s[k + 1]]

\* Array.prototype.find / findIndex / indexOf over the indices S that satisfy
\* the predicate: the least of them, 0 when there is none
FirstIndex(S) == IF S = {} THEN 0 ELSE CHOOSE i \in S : \A k \in S : i <= k

(***************************************************************************)
(* PlantManagementSystem                                                   *)
(***************************************************************************)

\* A faulty handlePlantingClick that compares with <= instead of <
TooCloseInclusive(plant, pos) ==
    /\ Abs(plant.xPosition - pos.x) <= Px(spacingThreshold)
    /\ Abs(plant.yPosition - pos.y) <= Px(spacingThreshold)

\* handlePlantingClick: the predicate of the find()
TooClose(plant, pos) ==
    /\ Abs(plant.xPosition - pos.x) < Px(spacingThreshold)
    /\ Abs(plant.yPosition - pos.y) < Px(spacingThreshold)

ExistingPlantNearby(plants, pos) == \E i \in 1..Len(plants) : TooClose(plants[i], pos)

\* plantSeed: the new entity
NewPlant(pos, type, id, t) ==
    [id |-> id, xPosition |-> pos.x, yPosition |-> pos.y, plantingTime |-> t,
     watered |-> FALSE, wateringStartTime |-> Null, hasGrown |-> FALSE,
     plantType |-> type]

plantSeed(plants, pos, type, id, t) == Append(plants, NewPlant(pos, type, id, t))

\* A faulty updatePlantGrowth that times growth from planting and does not
\* wait for watering
GrowOneFromPlanting(plant, t) ==
    IF plant.hasGrown THEN plant
    ELSE IF (t - plant.plantingTime) >= growthDurationSeconds * 1000
         THEN [plant EXCEPT !.hasGrown = TRUE]
         ELSE plant

\* A faulty updatePlantGrowth whose boundary is exclusive
GrowOneExclusive(plant, t) ==
    IF plant.hasGrown THEN plant
    ELSE IF ~plant.watered THEN plant
    ELSE LET start == Coalesce(plant.wateringStartTime, plant.plantingTime)
         IN  IF (t - start) > growthDurationSeconds * 1000
             THEN [plant EXCEPT !.hasGrown = TRUE]
             ELSE plant

\* updatePlantGrowth: one plant of the forEach
GrowOne(plant, t) ==
    IF plant.hasGrown THEN plant
    ELSE IF ~plant.watered THEN plant
    ELSE LET start == Coalesce(plant.wateringStartTime, plant.plantingTime)
         IN  IF (t - start) >= growthDurationSeconds * 1000
             THEN [plant EXCEPT !.hasGrown = TRUE]
             ELSE plant

updatePlantGrowth(plants, t) == [i \in 1..Len(plants) |-> GrowOne(plants[i], t)]

\* waterAtTile: the index found by find(), 0 when none

WaterTileIndex(plants, tileX, tileY) ==
    FirstIndex({i \in 1..Len(plants) :
                    /\ ~plants[i].hasGrown
                    /\ TileOf(plants[i].xPosition) = tileX
                    /\ TileOf(plants[i].yPosition) = tileY})

WaterOne(plant, t) == [plant EXCEPT !.watered = TRUE, !.wateringStartTime = t]

waterAtTileOk(plants, tileX, tileY) ==
    LET i == WaterTileIndex(plants, tileX, tileY)
    IN  i # 0 /\ ~plants[i].watered

waterAtTile(plants, tileX, tileY, t) ==
    LET i == WaterTileIndex(plants, tileX, tileY)
    IN  IF i # 0 /\ ~plants[i].watered
        THEN [plants EXCEPT ![i] = WaterOne(plants[i], t)]
        ELSE plants

\* waterNearest: squared distance and the index the loop ends with (0: none)
DistSq(plant, pos) ==
    (plant.xPosition - pos.x) * (plant.xPosition - pos.x)
    + (plant.yPosition - pos.y) * (plant.yPosition - pos.y)

NearestUnwatered(plants, pos, maxDistance) ==
    LET ok(i) == /\ ~plants[i].hasGrown
                 /\ ~plants[i].watered
                 /\ DistSq(plants[i], pos) <= maxDistance * maxDistance
        cand == {i \in 1..Len(plants) : ok(i)}
    IN  IF cand = {} THEN 0
        ELSE CHOOSE i \in cand :
               \A k \in cand : \/ DistSq(plants[i], pos) < DistSq(plants[k], pos)
                               \/ (DistSq(plants[i], pos) = DistSq(plants[k], pos) /\ i <= k)

waterNearest(plants, pos, maxDistance, t) ==
    LET i == NearestUnwatered(plants, pos, maxDistance)
    IN  IF i = 0 THEN plants ELSE [plants EXCEPT ![i] = WaterOne(plants[i], t)]

\* a waterAllUnwatered that waters the watered seeds again
WaterAllOneRestarting(plant, t) ==
    IF plant.hasGrown THEN plant ELSE WaterOne(plant, t)

\* waterAllUnwatered(startTime?)
WaterAllOne(plant, t) ==
    IF plant.hasGrown THEN plant
    ELSE IF plant.watered THEN plant
    ELSE WaterOne(plant, t)

waterAllCount(plants) ==
    Cardinality({i \in 1..Len(plants) : ~plants[i].hasGrown /\ ~plants[i].watered})

waterAllUnwatered(plants, startTime, t) ==
    LET tt == Coalesce(startTime, t)
    IN  [i \in 1..Len(plants) |-> WaterAllOne(plants[i], tt)]

\* removePlant: indexOf by identity, 0 when absent
IndexOfPlant(plants, id) ==
    FirstIndex({i \in 1..Len(plants) : plants[i].id = id})

removePlant(plants, id) ==
    LET i == IndexOfPlant(plants, id)
    IN  IF i # 0 THEN SeqRemoveAt(plants, i) ELSE plants

\* harvestNearest: the index the loop ends with (0: none)
NearestMature(plants, pos, maxDistance) ==
    LET ok(i) == /\ plants[i].hasGrown
                 /\ DistSq(plants[i], pos) <= maxDistance * maxDistance
        cand == {i \in 1..Len(plants) : ok(i)}
    IN  IF cand = {} THEN 0
        ELSE CHOOSE i \in cand :
               \A k \in cand : \/ DistSq(plants[i], pos) < DistSq(plants[k], pos)
                               \/ (DistSq(plants[i], pos) = DistSq(plants[k], pos) /\ i <= k)

harvestNearest(plants, pos, maxDistance) ==
    LET i == NearestMature(plants, pos, maxDistance)
    IN  IF i # 0 THEN SeqRemoveAt(plants, i) ELSE plants

(***************************************************************************)
(* The registry's operations as actions.                                   *)
(***************************************************************************)
NoRet == [op |-> "none", ok |-> FALSE, x |-> 0, y |-> 0, n |-> 0]

InitPlants ==
    /\ now = 0
    /\ plantedEntities = <<>>
    /\ nextId = 1
    /\ ret = NoRet

\* time passes between two calls
Tick ==
    \E dt \in TimeSteps :
        /\ now + dt <= MaxTicks * 2000
        /\ now' = now + dt
        /\ ret' = [NoRet EXCEPT !.op = "tick"]
        /\ UNCHANGED <<plantedEntities, nextId, outsidePlants>>

HandlePlantingClick ==
    \E pos \in ClickPositions, type \in PlantTypes :
        \* the caps bound the clicks that create an entity only
        /\ \/ ExistingPlantNearby(plantedEntities, pos)
           \/ (Len(plantedEntities) < MaxPlants /\ nextId <= MaxAllocs)
        /\ IF ~ExistingPlantNearby(plantedEntities, pos)
           THEN /\ plantedEntities' = plantSeed(plantedEntities, pos, type, nextId, now)
                /\ nextId' = nextId + 1
                /\ ret' = [op |-> "plant", ok |-> TRUE, x |-> pos.x, y |-> pos.y, n |-> 0]
           ELSE /\ ret' = [op |-> "plant", ok |-> FALSE, x |-> pos.x, y |-> pos.y, n |-> 0]
                /\ UNCHANGED <<plantedEntities, nextId>>
        /\ UNCHANGED <<now, outsidePlants>>

UpdatePlantGrowth ==
    /\ plantedEntities' = updatePlantGrowth(plantedEntities, now)
    /\ ret' = [NoRet EXCEPT !.op = "grow"]
    /\ UNCHANGED <<now, nextId, outsidePlants>>

WaterAtTile ==
    \E tile \in ClickTiles :
        /\ plantedEntities' = waterAtTile(plantedEntities, tile.x, tile.y, now)
        /\ ret' = [NoRet EXCEPT !.op = "waterAtTile",
                                !.ok = waterAtTileOk(plantedEntities, tile.x, tile.y),
                                !.x = tile.x, !.y = tile.y]
        /\ UNCHANGED <<now, nextId, outsidePlants>>

WaterNearest ==
    \E pos \in ClickPositions, d \in WaterReach :
        /\ plantedEntities' = waterNearest(plantedEntities, pos, d, now)
        /\ ret' = [NoRet EXCEPT !.op = "waterNearest",
                                !.ok = NearestUnwatered(plantedEntities, pos, d) # 0]
        /\ UNCHANGED <<now, nextId, outsidePlants>>

WaterAllUnwatered ==
    /\ plantedEntities' = waterAllUnwatered(plantedEntities, Null, now)
    /\ ret' = [NoRet EXCEPT !.op = "waterAll", !.n = waterAllCount(plantedEntities)]
    /\ UNCHANGED <<now, nextId, outsidePlants>>

HarvestNearest ==
    \E pos \in ClickPositions, d \in WaterReach :
        /\ plantedEntities' = harvestNearest(plantedEntities, pos, d)
        /\ ret' = [NoRet EXCEPT !.op = "harvest",
                                !.ok = NearestMature(plantedEntities, pos, d) # 0]
        /\ UNCHANGED <<now, nextId, outsidePlants>>

RemovePlant ==
    \E id \in 1..MaxAllocs :
        /\ plantedEntities' = removePlant(plantedEntities, id)
        /\ ret' = [op |-> "remove", ok |-> IndexOfPlant(plantedEntities, id) # 0,
                   x |-> 0, y |-> 0, n |-> id]
        /\ UNCHANGED <<now, nextId, outsidePlants>>

NextPlants ==
    \/ Tick
    \/ HandlePlantingClick
    \/ UpdatePlantGrowth
    \/ WaterAtTile
    \/ WaterNearest
    \/ WaterAllUnwatered
    \/ HarvestNearest
    \/ RemovePlant

(***************************************************************************)
(* TimeManager.  The clock's secondsIntoDay is counted in ticks of a third *)
(* of a second, so that every whole hour of a dayDurationSeconds-long day  *)
(* is a whole number of ticks.                                             *)
(***************************************************************************)
dayDurationSeconds == 40
TicksPerDay == dayDurationSeconds * 3

\* initialState of main.ts
InitialTimeState ==
    [day |-> 1, secondsIntoDay |-> 0, seasonIndex |-> 0, weather |-> "clear"]

\* getCurrentGameTime
getCurrentGameTime(ts) ==
    LET totalMinutesInCurrentDay == FloorDiv(ts.secondsIntoDay * 24 * 60, TicksPerDay)
        currentHour == FloorDiv(totalMinutesInCurrentDay, 60) % 24
    IN  [day |-> ts.day, hour |-> currentHour,
         totalHours |-> (ts.day - 1) * 24 + currentHour]

SeasonOf(day) == FloorDiv(day - 1, 10) % 4

\* an updateTime whose rollover carries the remainder over
updateTimeCarrying(ts, delta) ==
    IF ts.secondsIntoDay + delta >= TicksPerDay
    THEN [ts EXCEPT !.day = ts.day + 1,
                    !.secondsIntoDay = ts.secondsIntoDay + delta - TicksPerDay,
                    !.seasonIndex = SeasonOf(ts.day + 1)]
    ELSE [ts EXCEPT !.secondsIntoDay = ts.secondsIntoDay + delta]

\* an updateTime whose rollover goes back to the start of the same day
updateTimeSameDay(ts, delta) ==
    IF ts.secondsIntoDay + delta >= TicksPerDay
    THEN [ts EXCEPT !.secondsIntoDay = 0]
    ELSE [ts EXCEPT !.secondsIntoDay = ts.secondsIntoDay + delta]

\* updateTime(deltaTimeSeconds), delta in ticks
updateTime(ts, delta) ==
    IF ts.secondsIntoDay + delta >= TicksPerDay
    THEN [ts EXCEPT !.day = ts.day + 1, !.secondsIntoDay = 0,
                    !.seasonIndex = SeasonOf(ts.day + 1)]
    ELSE [ts EXCEPT !.secondsIntoDay = ts.secondsIntoDay + delta]

\* a setTimeToHour that ignores nextDay
setTimeToHourSameDay(ts, targetHour, nextDay) ==
    [ts EXCEPT !.secondsIntoDay = (targetHour * TicksPerDay) \div 24,
               !.seasonIndex = SeasonOf(ts.day)]

\* a setTimeToHour that leaves the season as it was
setTimeToHourStaleSeason(ts, targetHour, nextDay) ==
    [ts EXCEPT !.day = IF nextDay THEN ts.day + 1 ELSE ts.day,
               !.secondsIntoDay = (targetHour * TicksPerDay) \div 24]

\* setTimeToHour(targetHour, nextDay)
setTimeToHour(ts, targetHour, nextDay) ==
    LET d == IF nextDay THEN ts.day + 1 ELSE ts.day
    IN  [ts EXCEPT !.day = d,
                   !.secondsIntoDay = (targetHour * TicksPerDay) \div 24,
                   !.seasonIndex = SeasonOf(d)]

\* setWeather(weather)
setWeather(ts, weather) == [ts EXCEPT !.weather = weather]

\* ---- listeners ----
\* the callbacks registered in the runs of the clock alone: "reader" only reads
\* the object it is called with, "writer" also assigns to its day field
Callbacks == {"reader", "writer"}
CallbackWrites(callback, received) ==
    IF callback = "writer" THEN [received EXCEPT !.day = 0] ELSE received

addListener(ls, callback) == Append(ls, callback)

indexOfListener(ls, callback) ==
    FirstIndex({i \in 1..Len(ls) : ls[i] = callback})

removeListener(ls, callback) ==
    IF indexOfListener(ls, callback) > 0
    THEN SeqRemoveAt(ls, indexOfListener(ls, callback)) ELSE ls

\* listeners.forEach(listenerCallback => listenerCallback(currentStateCopy)):
\* the calls made, each with the one object currentStateCopy as it is by then
RECURSIVE forEachListener(_, _)
forEachListener(ls, currentStateCopy) ==
    IF ls = <<>> THEN <<>>
    ELSE <<[listener |-> Head(ls), state |-> currentStateCopy]>>
         \o forEachListener(Tail(ls), CallbackWrites(Head(ls), currentStateCopy))

notifyListeners(ls, ts) == forEachListener(ls, ts)

(***************************************************************************)
(* StaminaSystem.  Hours are counted in clock ticks (an hour is            *)
(* TicksPerDay / 24 ticks) and stamina in units of 1 / StaminaUnit, which  *)
(* makes maximum - hours * (100 / 17) a whole number.                      *)
(***************************************************************************)
sleepReminderHour == 22
midnightPenalty == 10
StaminaUnit == 17 * TicksPerDay
HourTicks(h) == (h * TicksPerDay) \div 24

\* the configured maxStamina values considered (100 is the default)
MaxStaminaConfigs == {100, 50, 300}

\* constructor
InitialStamina(maxStamina) ==
    [current |-> maxStamina * StaminaUnit, maximum |-> maxStamina * StaminaUnit,
     lastSleepTime |-> HourTicks(7), hasSleptToday |-> FALSE,
     showedSleepReminder |-> FALSE, lastPenaltyDay |-> 0, lastReminderDay |-> 0]

\* the continuous hours since day 1, in ticks: (day - 1) * 24 + hourFloat
TotalHoursFloat(ts) == (ts.day - 1) * TicksPerDay + ts.secondsIntoDay

Max(a, b) == IF a >= b THEN a ELSE b
Min(a, b) == IF a <= b THEN a ELSE b

\* resetDailyFlags
resetDailyFlags(st, currentTime) ==
    LET lastSleepDay == FloorDiv(st.lastSleepTime - HourTicks(7), TicksPerDay) + 1
    IN  IF currentTime.day > lastSleepDay
        THEN [st EXCEPT !.hasSleptToday = FALSE, !.showedSleepReminder = FALSE]
        ELSE st

\* A faulty updateStaminaDepletion without the clamp to the maximum
expectedStaminaUnclamped(st, ts) ==
    LET hoursSinceLastSleep == TotalHoursFloat(ts) - st.lastSleepTime
    IN  Max(0, st.maximum - hoursSinceLastSleep * 24 * 100)

\* updateStaminaDepletion: newStamina.  hoursSinceLastSleep * (100 / 17) in
\* stamina units is ticks * (24 / TicksPerDay) * (100 / 17) * StaminaUnit
expectedStamina(st, ts) ==
    LET hoursSinceLastSleep == TotalHoursFloat(ts) - st.lastSleepTime
        expected == Max(0, st.maximum - hoursSinceLastSleep * 24 * 100)
    IN  Max(0, Min(st.maximum, expected))

updateStaminaDepletion(st, ts) == [st EXCEPT !.current = expectedStamina(st, ts)]

\* checkSleepReminder: whether the notification is emitted
ReminderDue(st, currentTime) ==
    /\ currentTime.hour = sleepReminderHour
    /\ ~st.hasSleptToday
    /\ st.lastReminderDay < currentTime.day

checkSleepReminder(st, currentTime) ==
    IF ReminderDue(st, currentTime)
    THEN [st EXCEPT !.lastReminderDay = currentTime.day, !.showedSleepReminder = TRUE]
    ELSE st

\* A faulty checkAutoSleep without the lastPenaltyDay guard
AutoSleepDueUnguarded(st, currentTime) == st.current <= 0

\* checkAutoSleep: whether the penalty and the auto-sleep happen
AutoSleepDue(st, currentTime) ==
    st.current <= 0 /\ st.lastPenaltyDay < currentTime.day

\* a warp to 7 AM that always goes to the next day
SleepClockAlwaysNextDay(ts) == setTimeToHour(ts, 7, TRUE)

\* sleep / autoSleep: the clock after the warp to 7 AM
SleepClock(ts) == setTimeToHour(ts, 7, getCurrentGameTime(ts).hour >= 7)

\* a sleep that keeps the lastSleepTime it had
SleepStateStaleSleepTime(st, newTs) ==
    [st EXCEPT !.current = st.maximum,
               !.hasSleptToday = TRUE,
               !.showedSleepReminder = FALSE]

\* sleep / autoSleep: the stamina state after it, given the warped clock
SleepState(st, newTs) ==
    [st EXCEPT !.current = st.maximum,
               !.lastSleepTime = TotalHoursFloat(newTs),
               !.hasSleptToday = TRUE,
               !.showedSleepReminder = FALSE]

\* update(): the clock, the stamina state and the callbacks made
StaminaUpdate(ts, st) ==
    LET currentTime == getCurrentGameTime(ts)
        s1 == resetDailyFlags(st, currentTime)
        s2 == updateStaminaDepletion(s1, ts)
        reminded == ReminderDue(s2, currentTime)
        s3 == checkSleepReminder(s2, currentTime)
        collapsed == AutoSleepDue(s3, currentTime)
        s4 == [s3 EXCEPT !.lastPenaltyDay = currentTime.day]
        newTs == SleepClock(ts)
    IN  IF collapsed
        THEN [time |-> newTs, state |-> SleepState(s4, newTs),
              penalties |-> <<[day |-> currentTime.day, amount |-> -midnightPenalty]>>,
              exhausted |-> s2.current <= 0, reminded |-> reminded]
        ELSE [time |-> ts, state |-> s3, penalties |-> <<>>,
              exhausted |-> s2.current <= 0, reminded |-> reminded]

(***************************************************************************)
(* The clock's and the stamina system's operations as actions.             *)
(***************************************************************************)
ClockDeltas == {5, 40, 125, 250}

\* new TimeManager(initialState), new StaminaSystem(timeManager, {maxStamina})
InitClock(maxStamina) ==
    /\ timeState = InitialTimeState
    /\ stamina = InitialStamina(maxStamina)
    /\ penaltyLog = <<>>
    /\ listeners = <<>>
    /\ delivered = <<>>

\* main.ts renderLoop: timeManager.updateTime(deltaTimeSeconds)
UpdateTime ==
    \E delta \in ClockDeltas :
        /\ updateTime(timeState, delta).day <= MaxDay
        /\ timeState' = updateTime(timeState, delta)
        /\ ret' = [NoRet EXCEPT !.op = "updateTime", !.n = delta]
        /\ UNCHANGED <<stamina, penaltyLog, listenerVars, outsideClock>>

\* StaminaSystem.update(); ret.ok: the stamina computed was 0, ret.x: the day
\* at the start of the call, ret.n: the number of penalty callbacks made
Update ==
    LET r == StaminaUpdate(timeState, stamina)
    IN  /\ r.time.day <= MaxDay
        /\ timeState' = r.time
        /\ stamina' = r.state
        /\ penaltyLog' = penaltyLog \o r.penalties
        /\ ret' = [NoRet EXCEPT !.op = "update", !.ok = r.exhausted,
                                !.x = timeState.day, !.n = Len(r.penalties)]
        /\ UNCHANGED <<listenerVars, outsideClock>>

\* StaminaSystem.sleep()
Sleep ==
    /\ SleepClock(timeState).day <= MaxDay
    /\ timeState' = SleepClock(timeState)
    /\ stamina' = SleepState(stamina, SleepClock(timeState))
    /\ ret' = [NoRet EXCEPT !.op = "sleep", !.x = timeState.day]
    /\ UNCHANGED <<penaltyLog, listenerVars, outsideClock>>

\* the clock alone, called over many days: updateTime, setTimeToHour and
\* setWeather with the hours, deltas and weathers considered
ClockHours == {0, 7, 23}
Weathers == {"clear", "cloud", "storm"}

ClockUpdateTime ==
    \E delta \in ClockDeltas :
        /\ updateTime(timeState, delta).day <= MaxClockDay
        /\ timeState' = updateTime(timeState, delta)
        /\ delivered' = notifyListeners(listeners, timeState')
        /\ ret' = [NoRet EXCEPT !.op = "updateTime", !.n = delta]
        /\ UNCHANGED <<stamina, penaltyLog, listeners, outsideClock>>

ClockSetTimeToHour ==
    \E targetHour \in ClockHours, nextDay \in BOOLEAN :
        /\ setTimeToHour(timeState, targetHour, nextDay).day <= MaxClockDay
        /\ timeState' = setTimeToHour(timeState, targetHour, nextDay)
        /\ ret' = [NoRet EXCEPT !.op = "setTimeToHour", !.ok = nextDay,
                                !.n = targetHour]
        /\ delivered' = notifyListeners(listeners, timeState')
        /\ UNCHANGED <<stamina, penaltyLog, listeners, outsideClock>>

ClockSetWeather ==
    \E weather \in Weathers :
        /\ timeState' = setWeather(timeState, weather)
        /\ delivered' = notifyListeners(listeners, timeState')
        /\ ret' = [NoRet EXCEPT !.op = "setWeather"]
        /\ UNCHANGED <<stamina, penaltyLog, listeners, outsideClock>>

\* addListener(listenerCallback), of a callback not registered yet
ClockAddListener ==
    \E callback \in Callbacks :
        /\ indexOfListener(listeners, callback) = 0
        /\ listeners' = addListener(listeners, callback)
        /\ ret' = [NoRet EXCEPT !.op = "addListener"]
        /\ UNCHANGED <<timeState, stamina, penaltyLog, delivered, outsideClock>>

\* removeListener(listenerCallback)
ClockRemoveListener ==
    \E callback \in Callbacks :
        /\ listeners' = removeListener(listeners, callback)
        /\ ret' = [NoRet EXCEPT !.op = "removeListener",
                                !.ok = indexOfListener(listeners, callback) # 0]
        /\ UNCHANGED <<timeState, stamina, penaltyLog, delivered, outsideClock>>

NextClock ==
    \/ ClockUpdateTime
    \/ ClockSetTimeToHour
    \/ ClockSetWeather
    \/ ClockAddListener
    \/ ClockRemoveListener

NextStamina ==
    \/ UpdateTime
    \/ Update
    \/ Sleep


(***************************************************************************)
(* PlayerMovementSystem.  The frame's delta time is in milliseconds, and a *)
(* component of the movement input is in units of 1 / InputUnit, where     *)
(* 1 / Math.sqrt(2) is taken to four decimals.                             *)
(***************************************************************************)
movementSpeed == 180
feetHeightPixels == 12
minFeetWidthPixels == 6
framesPerSecond == 10
spriteColumns == 9
spriteRows == 4
directionUp == 0
directionLeft == 1
directionDown == 2
directionRight == 3
InputUnit == 10000
diagonalNormalization == 7071

Sign(n) == IF n > 0 THEN 1 ELSE IF n < 0 THEN -1 ELSE 0

\* the canvas handed to setCanvasReference by the engine's constructor
canvasRef == [width |-> Px(120), height |-> Px(96)]

\* inputs: the sprite sheet loaded, the frame's delta time, the keys held
\* down during a frame, the collision lists and the world sizes supplied
SpriteSheets == {[width |-> 180, height |-> 64]}
DeltaMs == {100}
MoveKeySets ==
    { {}, {"w"}, {"s"}, {"a"}, {"d"}, {"s", "d"}, {"w", "a"}, {"a", "d"},
      {"1"}, {"d", "2"}, {"3", "4"} }
WallLeft == [x |-> Px(30), y |-> Px(62), w |-> Px(20), h |-> Px(20)]
WallRight == [x |-> Px(58), y |-> Px(62), w |-> Px(40), h |-> Px(20)]
WallWide == [x |-> Px(10), y |-> Px(50), w |-> Px(90), h |-> Px(20)]
RectLists == { <<>>, <<WallRight>>, <<WallLeft, WallRight>>, <<WallWide>> }
WorldSizes == {[width |-> Px(150), height |-> Px(120)]}

\* worldBounds = null
NoBounds == [width |-> Null, height |-> Null]

\* the player of the constructor, centred by setCanvasReference
InitialPlayer ==
    [xPosition |-> canvasRef.width \div 2, yPosition |-> canvasRef.height \div 2,
     currentRow |-> directionDown, currentFrame |-> 0, animationTimer |-> 0,
     isMoving |-> FALSE]

\* initializeSpriteDimensions: the size of one frame of the sheet, in pixels
SpriteFrameOf(sheet) ==
    [width |-> FloorDiv(sheet.width, spriteColumns),
     height |-> FloorDiv(sheet.height, spriteRows)]

\* spriteFrameWidth * RENDER_CONFIG.playerScale, playerScale being 1.5
DisplaySize(framePixels) == framePixels * 15

SpriteReady(frame) == frame.width # 0 /\ frame.height # 0

\* a calculateMovementInput without the normalisation of diagonals
calculateMovementInputUnscaled(keys) ==
    LET v == (IF "s" \in keys THEN 1 ELSE 0) - (IF "w" \in keys THEN 1 ELSE 0)
        h == (IF "d" \in keys THEN 1 ELSE 0) - (IF "a" \in keys THEN 1 ELSE 0)
    IN  [horizontalMovement |-> h * InputUnit, verticalMovement |-> v * InputUnit,
         isMoving |-> h # 0 \/ v # 0]

\* calculateMovementInput: the components before normalisation are -1, 0, 1
calculateMovementInput(keys) ==
    LET v == (IF "s" \in keys THEN 1 ELSE 0) - (IF "w" \in keys THEN 1 ELSE 0)
        h == (IF "d" \in keys THEN 1 ELSE 0) - (IF "a" \in keys THEN 1 ELSE 0)
        isMoving == h # 0 \/ v # 0
        scale == IF isMoving /\ h # 0 /\ v # 0 THEN diagonalNormalization
                 ELSE InputUnit
    IN  [horizontalMovement |-> h * scale, verticalMovement |-> v * scale,
         isMoving |-> isMoving]

\* component * PLAYER_CONFIG.movementSpeed * deltaTimeSeconds
Displacement(component, dtMs) ==
    Sign(component) * ((Abs(component) * movementSpeed * dtMs) \div (InputUnit * 100))

\* the feet collision box of a player standing at pos
FeetBox(pos, frame) ==
    LET displayWidth == DisplaySize(frame.width)
        halfH == DisplaySize(frame.height) \div 2
        feetWidth == Max(Px(minFeetWidthPixels),
                         Min(displayWidth, (displayWidth * 4) \div 10))
    IN  [x |-> pos.x - feetWidth \div 2,
         y |-> (pos.y + halfH) - Px(feetHeightPixels),
         w |-> feetWidth, h |-> Px(feetHeightPixels)]

Overlaps(b, r) ==
    b.x < r.x + r.w /\ b.x + b.w > r.x /\ b.y < r.y + r.h /\ b.y + b.h > r.y

\* the body of resolveCollisions' loop for an overlapped rectangle r
PushOut(pos, b, r, dx, dy) ==
    LET penLeft == (b.x + b.w) - r.x
        penRight == (r.x + r.w) - b.x
        penUp == (b.y + b.h) - r.y
        penDown == (r.y + r.h) - b.y
        preferX == Abs(dx) >= Abs(dy)
    IN  IF preferX
        THEN IF dx > 0 THEN [pos EXCEPT !.x = @ - penLeft]
             ELSE IF dx < 0 THEN [pos EXCEPT !.x = @ + penRight]
             ELSE IF penLeft < penRight THEN [pos EXCEPT !.x = @ - penLeft]
             ELSE [pos EXCEPT !.x = @ + penRight]
        ELSE IF dy > 0 THEN [pos EXCEPT !.y = @ - penUp]
             ELSE IF dy < 0 THEN [pos EXCEPT !.y = @ + penDown]
             ELSE IF penUp < penDown THEN [pos EXCEPT !.y = @ - penUp]
             ELSE [pos EXCEPT !.y = @ + penDown]

\* resolveCollisions' loop from the i-th rectangle on
RECURSIVE ResolveFrom(_, _, _, _, _, _)
ResolveFrom(pos, rects, i, dx, dy, frame) ==
    IF i > Len(rects) THEN pos
    ELSE LET b == FeetBox(pos, frame)
         IN  IF Overlaps(b, rects[i])
             THEN ResolveFrom(PushOut(pos, b, rects[i], dx, dy), rects, i + 1,
                              dx, dy, frame)
             ELSE ResolveFrom(pos, rects, i + 1, dx, dy, frame)

resolveCollisions(pos, rects, dx, dy, frame) ==
    IF ~SpriteReady(frame) THEN pos
    ELSE ResolveFrom(pos, rects, 1, dx, dy, frame)

\* a facing in which the horizontal axis wins a tie
FacingAfterHorizontalTie(row, input) ==
    IF Abs(input.horizontalMovement) >= Abs(input.verticalMovement)
       /\ Abs(input.horizontalMovement) > 0
    THEN (IF input.horizontalMovement > 0 THEN directionRight ELSE directionLeft)
    ELSE IF Abs(input.verticalMovement) > 0
    THEN (IF input.verticalMovement > 0 THEN directionDown ELSE directionUp)
    ELSE row

\* the facing row chosen by applyMovement
FacingAfter(row, input) ==
    IF Abs(input.horizontalMovement) > Abs(input.verticalMovement)
    THEN (IF input.horizontalMovement > 0 THEN directionRight ELSE directionLeft)
    ELSE IF Abs(input.verticalMovement) > 0
    THEN (IF input.verticalMovement > 0 THEN directionDown ELSE directionUp)
    ELSE row

applyMovement(pc, input, dtMs, frame, rects) ==
    LET dx == Displacement(input.horizontalMovement, dtMs)
        dy == Displacement(input.verticalMovement, dtMs)
        moved == [x |-> pc.xPosition + dx, y |-> pc.yPosition + dy]
        pos == resolveCollisions(moved, rects, dx, dy, frame)
    IN  [pc EXCEPT !.isMoving = input.isMoving,
                   !.currentRow = FacingAfter(pc.currentRow, input),
                   !.xPosition = pos.x, !.yPosition = pos.y]

\* updateAnimation's while loop; the timer is in milliseconds
RECURSIVE AdvanceFrames(_, _)
AdvanceFrames(frameIndex, timer) ==
    IF timer >= 1000 \div framesPerSecond
    THEN AdvanceFrames((frameIndex + 1) % spriteColumns,
                       timer - 1000 \div framesPerSecond)
    ELSE [currentFrame |-> frameIndex, animationTimer |-> timer]

updateAnimation(pc, input, dtMs) ==
    IF input.isMoving
    THEN LET a == AdvanceFrames(pc.currentFrame, pc.animationTimer + dtMs)
         IN  [pc EXCEPT !.currentFrame = a.currentFrame,
                        !.animationTimer = a.animationTimer]
    ELSE [pc EXCEPT !.currentFrame = 0, !.animationTimer = 0]

constrainToCanvas(pc, frame, bounds) ==
    IF ~SpriteReady(frame) THEN pc
    ELSE LET halfWidth == DisplaySize(frame.width) \div 2
             halfHeight == DisplaySize(frame.height) \div 2
             worldW == Coalesce(bounds.width, canvasRef.width)
             worldH == Coalesce(bounds.height, canvasRef.height)
         IN  [pc EXCEPT
                !.xPosition = Max(halfWidth, Min(worldW - halfWidth, @)),
                !.yPosition = Max(halfHeight, Min(worldH - halfHeight, @))]

handleDirectionOverrides(pc, keys) ==
    [pc EXCEPT !.currentRow =
        IF "4" \in keys THEN directionRight
        ELSE IF "3" \in keys THEN directionDown
        ELSE IF "2" \in keys THEN directionLeft
        ELSE IF "1" \in keys THEN directionUp
        ELSE @]

\* an updatePlayerMovement that clamps before it moves the player
updatePlayerMovementClampFirst(pc, keys, dtMs, frame, rects, bounds) ==
    LET input == calculateMovementInput(keys)
        clamped == constrainToCanvas(pc, frame, bounds)
        applied == applyMovement(clamped, input, dtMs, frame, rects)
        animated == updateAnimation(applied, input, dtMs)
    IN  [player |-> handleDirectionOverrides(animated, keys),
         resolved |-> [x |-> applied.xPosition, y |-> applied.yPosition]]

\* updatePlayerMovement: the player after the frame, and the position
\* applyMovement left, that is the one resolveCollisions returned
updatePlayerMovement(pc, keys, dtMs, frame, rects, bounds) ==
    LET input == calculateMovementInput(keys)
        applied == applyMovement(pc, input, dtMs, frame, rects)
        animated == updateAnimation(applied, input, dtMs)
        clamped == constrainToCanvas(animated, frame, bounds)
    IN  [player |-> handleDirectionOverrides(clamped, keys),
         resolved |-> [x |-> applied.xPosition, y |-> applied.yPosition]]

(***************************************************************************)
(* The motion controller's operations as actions.                          *)
(***************************************************************************)
InitMovement ==
    /\ playerCharacter = InitialPlayer
    /\ spriteFrame = [width |-> 0, height |-> 0]
    /\ collisionRects = <<>>
    /\ worldBounds = NoBounds
    /\ frames = 0

InitializeSpriteDimensions ==
    \E sheet \in SpriteSheets :
        /\ spriteFrame' = SpriteFrameOf(sheet)
        /\ ret' = [NoRet EXCEPT !.op = "initializeSpriteDimensions"]
        /\ UNCHANGED <<playerCharacter, collisionRects, worldBounds, frames,
                       outsideMovement>>

SetCollisionRects ==
    \E rects \in RectLists :
        /\ collisionRects' = rects
        /\ ret' = [NoRet EXCEPT !.op = "setCollisionRects", !.n = Len(rects)]
        /\ UNCHANGED <<playerCharacter, spriteFrame, worldBounds, frames,
                       outsideMovement>>

SetWorldSize ==
    \E size \in WorldSizes :
        /\ worldBounds' = size
        /\ ret' = [NoRet EXCEPT !.op = "setWorldSize"]
        /\ UNCHANGED <<playerCharacter, spriteFrame, collisionRects, frames,
                       outsideMovement>>

\* updatePlayerMovement(deltaTimeSeconds) under the keys held down; ret.x and
\* ret.y: the position resolveCollisions returned, ret.ok: the sprite's
\* dimensions were initialised
UpdatePlayerMovement ==
    \E keys \in MoveKeySets, dtMs \in DeltaMs :
        LET r == updatePlayerMovement(playerCharacter, keys, dtMs, spriteFrame,
                                      collisionRects, worldBounds)
        IN  /\ frames < MaxMoves
            /\ frames' = frames + 1
            /\ playerCharacter' = r.player
            /\ ret' = [NoRet EXCEPT !.op = "updatePlayerMovement",
                                    !.ok = SpriteReady(spriteFrame),
                                    !.x = r.resolved.x, !.y = r.resolved.y,
                                    !.n = dtMs]
            /\ UNCHANGED <<spriteFrame, collisionRects, worldBounds,
                           outsideMovement>>

\* updatePlayerMovement(deltaTimeSeconds) in a world without obstacles, under
\* every combination of the directional keys and of the override keys 1-4;
\* pressedKeys: the keys held down, ret.x and ret.y: the position before
DirectionKeySets == SUBSET {"w", "a", "s", "d"}
OverrideKeySets == { {}, {"1"}, {"2"}, {"3"}, {"4"}, {"1", "4"}, {"2", "3"} }

MoveUnderKeys ==
    \E dks \in DirectionKeySets, oks \in OverrideKeySets, dtMs \in DeltaMs :
        LET r == updatePlayerMovement(playerCharacter, dks \cup oks, dtMs,
                                      spriteFrame, collisionRects, worldBounds)
        IN  /\ frames < MaxMoves
            /\ frames' = frames + 1
            /\ playerCharacter' = r.player
            /\ pressedKeys' = dks \cup oks
            /\ ret' = [NoRet EXCEPT !.op = "updatePlayerMovement",
                                    !.ok = SpriteReady(spriteFrame),
                                    !.x = playerCharacter.xPosition,
                                    !.y = playerCharacter.yPosition,
                                    !.n = dtMs]
            /\ UNCHANGED <<spriteFrame, collisionRects, worldBounds, now, plantVars,
                           clockVars, engine, inventory, dispatched, midPointCalls>>

NextKeys ==
    \/ InitializeSpriteDimensions
    \/ MoveUnderKeys

NextMovement ==
    \/ InitializeSpriteDimensions
    \/ SetCollisionRects
    \/ SetWorldSize
    \/ UpdatePlayerMovement


(***************************************************************************)
(* GameEngine.  The maps, the images and the shop's random stock are data  *)
(* loaded at run time: the model fixes two small scenes, the exterior and  *)
(* the interior of the house, by the interaction zones, the collision      *)
(* rectangles, the world size, the dirt tiles and the spawn point that     *)
(* buildInteractionAreas, updateWorldCollisions, isDirtTileAtWorld and the *)
(* transition callbacks compute from them.                                 *)
(***************************************************************************)
plantCooldownMs == 500
harvestCooldownMs == 350
defaultFadeMs == 600
bedFadeMs == 800
inventorySlotCount == 8
initialSeedCount == 6
waterCapacity == 10
worldWidthTiles == 100
worldHeightTiles == 100
slashColumns == 6
slashFramesPerSecond == 20

ZoneAt(tx, ty, kind) ==
    [x |-> Px(tx * tileSize), y |-> Px(ty * tileSize), kind |-> kind]
TileRect(tx, ty) ==
    [x |-> Px(tx * tileSize), y |-> Px(ty * tileSize),
     w |-> Px(tileSize), h |-> Px(tileSize)]

ExteriorScene ==
    [inside |-> FALSE,
     areas |-> <<ZoneAt(1, 3, "well"), ZoneAt(2, 3, "ship"),
                 ZoneAt(5, 2, "enterHouse"), ZoneAt(4, 2, "storefront")>>,
     rects |-> <<[x |-> Px(97), y |-> Px(-4), w |-> Px(222), h |-> Px(100)],
                 TileRect(4, 2)>>,
     world |-> [width |-> Px(12 * tileSize), height |-> Px(8 * tileSize)],
     dirt |-> {[x |-> tx, y |-> ty] : tx \in 0..11, ty \in 4..5},
     spawn |-> [x |-> Px(208), y |-> Px(128)]]

InteriorScene ==
    [inside |-> TRUE,
     areas |-> <<ZoneAt(1, 3, "bed"), ZoneAt(1, 6, "exitHouse")>>,
     rects |-> <<TileRect(0, 0), TileRect(3, 4)>>,
     world |-> [width |-> Px(6 * tileSize), height |-> Px(8 * tileSize)],
     dirt |-> {},
     spawn |-> [x |-> Px(48), y |-> Px(144)]]

SceneOf(map) == IF map = "interior" THEN InteriorScene ELSE ExteriorScene

\* the stock refreshShopItems drew
ShopItems ==
    <<[plantType |-> "eye", price |-> 8], [plantType |-> "mushroom", price |-> 5],
      [plantType |-> "spike", price |-> 12]>>

\* the sale price of a harvested plant (PLANT_PRICES)
PlantPrice(type) == IF type = "eye" THEN 5 ELSE 7

\* the keys held down during a frame
EngineKeySets ==
    { {}, {"e"}, {" "}, {"p", "q", "h", "arrowleft"}, {"arrowdown", "enter"},
      {"arrowup", "arrowright"}, {"escape"}, {"a"}, {"d"} }
FrameMs == {300, 700}

\* the scene the model starts in, and the player's position there
StartScenes == {"exterior", "interior"}
StartPosition(map) ==
    IF map = "interior" THEN InteriorScene.spawn ELSE [x |-> Px(130), y |-> Px(106)]

NoItem == [kind |-> "none", plantType |-> "none", count |-> 0]
SeedItem(type, count) == [kind |-> "seed", plantType |-> type, count |-> count]
NoFade ==
    [active |-> FALSE, startTime |-> 0, duration |-> defaultFadeMs,
     midPointFired |-> FALSE, onMidPointCallback |-> "none"]

\* the engine's fields after its constructor
ConstructedEngine ==
    [isShopOpen |-> FALSE, selectedShopItemIndex |-> 0, availableShopItems |-> <<>>,
     isInsideBuilding |-> FALSE, interactionAreas |-> <<>>,
     fadeTransitionState |-> NoFade, pendingMaps |-> <<>>,
     wasInteractionKeyPressed |-> FALSE, wasQuitShopKeyPressed |-> FALSE,
     wasLeftArrowPressed |-> FALSE, wasRightArrowPressed |-> FALSE,
     wasSpaceKeyPressed |-> FALSE, wasUpArrowPressed |-> FALSE,
     wasDownArrowPressed |-> FALSE, wasEnterKeyPressed |-> FALSE,
     wasEscapeKeyPressed |-> FALSE,
     playerInventorySlots |->
        <<SeedItem("eye", initialSeedCount), SeedItem("tentacle", initialSeedCount),
          SeedItem("spike", initialSeedCount),
          [kind |-> "tool", plantType |-> "hoe", count |-> 1],
          NoItem, NoItem, NoItem, NoItem>>,
     selectedInventorySlotIndex |-> 0,
     lastPlantTime |-> 0, lastHarvestTime |-> 0, activeVisualEffects |-> <<>>]

\* new InventorySystem(0, undefined, 10, 10)
InitialInventory ==
    [totalCoins |-> 0, currentWaterAmount |-> waterCapacity,
     plantCounts |-> [t \in {"eye", "tentacle", "jaws", "spike", "orb", "mushroom"} |-> 0]]

\* ---- the inventory bar ----
moveSelection(e, dir) ==
    [e EXCEPT !.selectedInventorySlotIndex =
        (@ + dir + inventorySlotCount) % inventorySlotCount]

SeedSlots(slots) ==
    {i \in 1..Len(slots) : slots[i].kind = "seed" /\ slots[i].count > 0}

hasAnySeeds(slots) == SeedSlots(slots) # {}

\* the slot consumeOneSeed and getSelectedSeedType use: the selected one when
\* it holds seeds, else the first that does (0: none)
SeedSlotUsed(slots, selected) ==
    IF (selected + 1) \in SeedSlots(slots) THEN selected + 1
    ELSE FirstIndex(SeedSlots(slots))

consumeOneSeed(slots, selected) ==
    LET i == SeedSlotUsed(slots, selected)
    IN  IF i = 0 THEN slots
        ELSE IF slots[i].count - 1 <= 0 THEN [slots EXCEPT ![i] = NoItem]
        ELSE [slots EXCEPT ![i].count = @ - 1]

\* an addSeedsToInventory that never looks for a slot of the same seed type
addSeedsToFreeSlot(slots, type, amount) ==
    LET free == FirstIndex({i \in 1..Len(slots) : slots[i] = NoItem})
    IN  IF free # 0 THEN [slots EXCEPT ![free] = SeedItem(type, amount)]
        ELSE slots

addSeedsToInventory(slots, type, amount) ==
    LET same == FirstIndex({i \in 1..Len(slots) :
                               slots[i].kind = "seed" /\ slots[i].plantType = type})
        free == FirstIndex({i \in 1..Len(slots) : slots[i] = NoItem})
    IN  IF same # 0 THEN [slots EXCEPT ![same].count = @ + amount]
        ELSE IF free # 0 THEN [slots EXCEPT ![free] = SeedItem(type, amount)]
        ELSE slots

\* ---- the inventory (InventorySystem) ----
spendCoinsOk(inv, amount) == amount <= 0 \/ inv.totalCoins >= amount

\* a spendCoins that spends coins it does not have
spendCoinsOverdraft(inv, amount) ==
    IF amount <= 0 THEN inv ELSE [inv EXCEPT !.totalCoins = @ - amount]

spendCoins(inv, amount) ==
    IF amount <= 0 \/ inv.totalCoins < amount THEN inv
    ELSE [inv EXCEPT !.totalCoins = @ - amount]

modifyCoins(inv, change) == [inv EXCEPT !.totalCoins = Max(0, @ + change)]

RECURSIVE SumOver(_, _)
SumOver(f, S) ==
    IF S = {} THEN 0
    ELSE LET t == CHOOSE t \in S : TRUE IN f[t] + SumOver(f, S \ {t})

\* computeSalePreview / sellAllPlants: the coins the plants held are worth
SaleValue(inv) ==
    SumOver([t \in DOMAIN inv.plantCounts |-> inv.plantCounts[t] * PlantPrice(t)],
            DOMAIN inv.plantCounts)

\* a sellAllPlants that pays for every plant and empties only the "eye" count
sellAllPlantsKeepingSome(inv) ==
    [inv EXCEPT !.totalCoins = @ + SaleValue(inv),
                !.plantCounts["eye"] = 0]

sellAllPlants(inv) ==
    [inv EXCEPT !.totalCoins = @ + SaleValue(inv),
                !.plantCounts = [t \in DOMAIN inv.plantCounts |-> 0]]

\* addPlant, of an inventory without a capacity
addPlant(inv, plantType) == [inv EXCEPT !.plantCounts[plantType] = @ + 1]

\* getTotalPlantCount, and computeSalePreview's items
TotalPlantCount(inv) ==
    SumOver(inv.plantCounts, DOMAIN inv.plantCounts)

\* the ship branch of handleInteractions: the inventory after it, whether the
\* plants were sold, and the coinsGained the notification reports
shipInteraction(inv) ==
    IF TotalPlantCount(inv) <= 0 \/ SaleValue(inv) <= 0
    THEN [inv |-> inv, sold |-> FALSE, coinsGained |-> 0]
    ELSE [inv |-> sellAllPlants(inv), sold |-> TRUE,
          coinsGained |-> sellAllPlants(inv).totalCoins - inv.totalCoins]

\* the water can
refillWater(inv) == [inv EXCEPT !.currentWaterAmount = waterCapacity]
useWaterOk(inv, waterUnits) == ~(inv.currentWaterAmount < waterUnits)
useWater(inv, waterUnits) ==
    IF inv.currentWaterAmount < waterUnits THEN inv
    ELSE [inv EXCEPT !.currentWaterAmount = @ - waterUnits]

\* the onCoinsChanged callback of setTimeManager
onCoinsChanged(inv, amount) ==
    IF amount < 0 /\ inv.totalCoins >= Abs(amount)
    THEN modifyCoins(inv, amount) ELSE inv

\* the callback, for each penalty in turn
RECURSIVE ApplyPenalties(_, _)
ApplyPenalties(inv, penalties) ==
    IF penalties = <<>> THEN inv
    ELSE ApplyPenalties(onCoinsChanged(inv, Head(penalties).amount), Tail(penalties))

\* ---- positions ----
\* the tile of the player's feet
FeetTile(pc, frame) ==
    [x |-> TileOf(pc.xPosition),
     y |-> TileOf(pc.yPosition + DisplaySize(frame.height) \div 2)]

calculatePlantingPosition(pc, frame) ==
    LET ft == FeetTile(pc, frame)
        tx == IF pc.currentRow = directionLeft THEN ft.x - 1
              ELSE IF pc.currentRow = directionRight THEN ft.x + 1 ELSE ft.x
        ty == IF pc.currentRow = directionUp THEN ft.y - 1
              ELSE IF pc.currentRow \in {directionLeft, directionRight} THEN ft.y
              ELSE ft.y + 1
        cx == Max(0, Min(worldWidthTiles - 1, tx))
        cy == Max(0, Min(worldHeightTiles - 1, ty))
    IN  [x |-> Px(cx * tileSize) + Px(tileSize) \div 2,
         y |-> Px(cy * tileSize) + Px(tileSize) \div 2]

isDirtTileAtWorld(e, pos) ==
    [x |-> TileOf(pos.x), y |-> TileOf(pos.y)]
        \in SceneOf(IF e.isInsideBuilding THEN "interior" ELSE "exterior").dirt

\* a resolution that also takes the eight neighbouring tiles' diagonals
getFeetAdjacentInteractionDiagonal(areas, pc, frame) ==
    IF frame.height = 0 THEN 0
    ELSE LET ft == FeetTile(pc, frame)
         IN  FirstIndex({i \in 1..Len(areas) :
                /\ Abs(ft.x - TileOf(areas[i].x)) <= 1
                /\ Abs(ft.y - TileOf(areas[i].y)) <= 1})

\* the index in the zone list of the zone returned, 0 for null
getFeetAdjacentInteraction(areas, pc, frame) ==
    IF frame.height = 0 THEN 0
    ELSE LET ft == FeetTile(pc, frame)
         IN  FirstIndex({i \in 1..Len(areas) :
                Abs(ft.x - TileOf(areas[i].x)) + Abs(ft.y - TileOf(areas[i].y)) <= 1})

\* ---- the steps of updateGameState; w is the state the frame has reached,
\* ---- t the frame's performance.now(), w.did the handlers it has run
Did(w, what) == [w EXCEPT !.did = @ \cup {what}]

\* handlePlantingClick(pos, type) and, when it planted, consumeOneSeed
PlantAndConsume(w, pos, type, t) ==
    IF ExistingPlantNearby(w.plants, pos) THEN w
    ELSE [w EXCEPT !.plants = plantSeed(w.plants, pos, type, w.nextId, t),
                   !.nextId = @ + 1,
                   !.e.playerInventorySlots =
                        consumeOneSeed(@, w.e.selectedInventorySlotIndex)]

plantingHandler(w0, keys, t, frame) ==
    IF ~("p" \in keys /\ t - w0.e.lastPlantTime > plantCooldownMs) THEN w0
    ELSE LET w == Did([w0 EXCEPT !.e.lastPlantTime = t], "plant")
             pos == calculatePlantingPosition(w.pc, frame)
             slots == w.e.playerInventorySlots
             used == SeedSlotUsed(slots, w.e.selectedInventorySlotIndex)
         IN  IF ~hasAnySeeds(slots) THEN w
             ELSE IF ~isDirtTileAtWorld(w.e, pos) THEN w
             ELSE PlantAndConsume(w, pos, slots[used].plantType, t)

\* a startFadeTransition that leaves a transition still active in place
startFadeTransitionUnlessActive(e, callback, durationMs, t) ==
    IF e.fadeTransitionState.active THEN e
    ELSE [e EXCEPT !.fadeTransitionState =
            [active |-> TRUE, startTime |-> t, duration |-> durationMs,
             midPointFired |-> FALSE, onMidPointCallback |-> callback]]

startFadeTransition(e, callback, durationMs, t) ==
    [e EXCEPT !.fadeTransitionState =
        [active |-> TRUE, startTime |-> t, duration |-> durationMs,
         midPointFired |-> FALSE, onMidPointCallback |-> callback]]

handleInteractions(w0, t, frame) ==
    LET w == Did(w0, "interact")
        near == getFeetAdjacentInteraction(w.e.interactionAreas, w.pc, frame)
        kind == IF near = 0 THEN "none" ELSE w.e.interactionAreas[near].kind
    IN  IF kind \in {"enterHouse", "exitHouse"}
        THEN [w EXCEPT !.e = startFadeTransition(@, kind, defaultFadeMs, t),
                       !.calls = 0]
        ELSE IF kind = "storefront"
        THEN [w EXCEPT !.e.isShopOpen = TRUE, !.e.selectedShopItemIndex = 0]
        ELSE IF kind = "bed"
        THEN [w EXCEPT !.e = startFadeTransition(@, "sleep", bedFadeMs, t),
                       !.calls = 0]
        ELSE IF kind = "ship"
        THEN [w EXCEPT !.inv = shipInteraction(@).inv]
        ELSE IF kind = "well"
        THEN [w EXCEPT !.inv = refillWater(@)]
        ELSE w

\* the tiles handleWatering tries, in order
WateringCandidates(pc, frame) ==
    LET ft == FeetTile(pc, frame)
        fwd == [x |-> IF pc.currentRow = directionLeft THEN ft.x - 1
                      ELSE IF pc.currentRow = directionRight THEN ft.x + 1 ELSE ft.x,
                y |-> IF pc.currentRow = directionUp THEN ft.y - 1
                      ELSE IF pc.currentRow = directionDown THEN ft.y + 1 ELSE ft.y]
    IN  <<fwd, ft, [ft EXCEPT !.x = @ - 1], [ft EXCEPT !.x = @ + 1],
          [ft EXCEPT !.y = @ - 1], [ft EXCEPT !.y = @ + 1]>>

handleWatering(w0, t, frame) ==
    LET w == Did(w0, "water")
        cands == WateringCandidates(w.pc, frame)
        hit == FirstIndex({i \in 1..Len(cands) :
                              waterAtTileOk(w.plants, cands[i].x, cands[i].y)})
        feet == [x |-> w.pc.xPosition,
                 y |-> w.pc.yPosition + DisplaySize(frame.height) \div 2]
    IN  IF frame.height = 0 THEN w
        ELSE IF w.inv.currentWaterAmount < 1 THEN w
        ELSE [w EXCEPT
                !.inv.currentWaterAmount = @ - 1,
                !.plants =
                    IF hit # 0 THEN waterAtTile(@, cands[hit].x, cands[hit].y, t)
                    ELSE waterNearest(@, feet, (Px(tileSize) * 95) \div 100, t)]

\* findMatureAtTile, else findNearestMature: the index of the plant (0: none)
HarvestTarget(plants, pos) ==
    LET atTile == FirstIndex({i \in 1..Len(plants) :
                                /\ plants[i].hasGrown
                                /\ TileOf(plants[i].xPosition) = TileOf(pos.x)
                                /\ TileOf(plants[i].yPosition) = TileOf(pos.y)})
    IN  IF atTile # 0 THEN atTile
        ELSE NearestMature(plants, pos, (Px(tileSize) * 125) \div 100)

harvestHandler(w0, keys, t, frame) ==
    IF ~("h" \in keys /\ t - w0.e.lastHarvestTime > harvestCooldownMs) THEN w0
    ELSE LET w == Did([w0 EXCEPT !.e.lastHarvestTime = t], "harvest")
             target == HarvestTarget(w.plants, calculatePlantingPosition(w.pc, frame))
         IN  IF target = 0 THEN w
             ELSE [w EXCEPT !.e.activeVisualEffects =
                      Append(@, [startTime |-> t, targetPlant |-> w.plants[target].id,
                                 plantType |-> w.plants[target].plantType])]

useSelectedItem(w0, t, frame) ==
    LET w == Did(w0, "useItem")
        it == w.e.playerInventorySlots[w.e.selectedInventorySlotIndex + 1]
        pos == calculatePlantingPosition(w.pc, frame)
    IN  IF it.kind # "seed" THEN w
        ELSE IF ~isDirtTileAtWorld(w.e, pos) THEN w
        ELSE PlantAndConsume(w, pos, it.plantType, t)

handleShopInput(w, keys) ==
    LET n == Len(w.e.availableShopItems)
        up == "arrowup" \in keys
        down == "arrowdown" \in keys
        enter == "enter" \in keys
        esc == "escape" \in keys
        i1 == IF up /\ ~w.e.wasUpArrowPressed
              THEN (w.e.selectedShopItemIndex - 1 + n) % n
              ELSE w.e.selectedShopItemIndex
        i2 == IF down /\ ~w.e.wasDownArrowPressed THEN (i1 + 1) % n ELSE i1
        buys == enter /\ ~w.e.wasEnterKeyPressed
        item == w.e.availableShopItems[i2 + 1]
        paid == buys /\ spendCoinsOk(w.inv, item.price)
        closes == esc /\ ~w.e.wasEscapeKeyPressed
        navigates == (up /\ ~w.e.wasUpArrowPressed) \/ (down /\ ~w.e.wasDownArrowPressed)
        did == (IF navigates THEN {"shopNavigate"} ELSE {})
               \cup (IF buys THEN {"purchase"} ELSE {})
               \cup (IF closes THEN {"closeShop"} ELSE {})
    IN  [w EXCEPT
            !.did = @ \cup did,
            !.inv = IF paid THEN spendCoins(@, item.price) ELSE @,
            !.e = [@ EXCEPT
                !.selectedShopItemIndex = i2,
                !.playerInventorySlots =
                    IF paid THEN addSeedsToInventory(@, item.plantType, 1) ELSE @,
                !.isShopOpen = IF closes THEN FALSE ELSE @,
                !.wasUpArrowPressed = up, !.wasDownArrowPressed = down,
                !.wasEnterKeyPressed = enter, !.wasEscapeKeyPressed = esc]]

\* the else branch of the shop test: the inventory bar's keys
inventoryBarInput(w, keys, t, frame) ==
    LET left == "arrowleft" \in keys
        right == "arrowright" \in keys
        space == " " \in keys
        w1 == IF left /\ ~w.e.wasLeftArrowPressed
              THEN Did([w EXCEPT !.e = moveSelection(@, -1)], "moveSelection") ELSE w
        w2 == IF right /\ ~w.e.wasRightArrowPressed
              THEN Did([w1 EXCEPT !.e = moveSelection(@, 1)], "moveSelection") ELSE w1
        w3 == IF space /\ ~w.e.wasSpaceKeyPressed
              THEN useSelectedItem(w2, t, frame) ELSE w2
    IN  [w3 EXCEPT !.e.wasLeftArrowPressed = left, !.e.wasRightArrowPressed = right,
                   !.e.wasSpaceKeyPressed = space]

\* the midpoint callbacks: sleepAtBed's calls staminaSystem.sleep(), those of
\* enterHouse and exitHouse start loading a map and go on once it is loaded
RunMidPointCallback(w0, callback) ==
    LET w == [w0 EXCEPT !.calls = @ + 1]
    IN  IF callback = "sleep"
        THEN [w EXCEPT !.time = SleepClock(w.time),
                       !.st = SleepState(@, SleepClock(w.time))]
        ELSE IF callback = "enterHouse"
        THEN [w EXCEPT !.e.pendingMaps = Append(@, "interior")]
        ELSE IF callback = "exitHouse"
        THEN [w EXCEPT !.e.pendingMaps = Append(@, "exterior")]
        ELSE w

\* a fade update without the midpoint-fired test
updateFadeTransitionRefiring(w, t) ==
    LET f == w.e.fadeTransitionState
        elapsed == t - f.startTime
        fires == 2 * elapsed >= f.duration
        ends == elapsed >= f.duration
        w1 == IF fires
              THEN RunMidPointCallback(
                       Did([w EXCEPT !.e.fadeTransitionState.midPointFired = TRUE],
                           "midPoint"),
                       f.onMidPointCallback)
              ELSE w
    IN  IF ~f.active THEN w
        ELSE IF ends
        THEN [w1 EXCEPT !.e.fadeTransitionState.active = FALSE,
                        !.e.fadeTransitionState.onMidPointCallback = "none"]
        ELSE w1

updateFadeTransition(w, t) ==
    LET f == w.e.fadeTransitionState
        elapsed == t - f.startTime
        fires == ~f.midPointFired /\ 2 * elapsed >= f.duration
        ends == elapsed >= f.duration
        w1 == IF fires
              THEN RunMidPointCallback(
                       Did([w EXCEPT !.e.fadeTransitionState.midPointFired = TRUE],
                           "midPoint"),
                       f.onMidPointCallback)
              ELSE w
    IN  IF ~f.active THEN w
        ELSE IF ends
        THEN [w1 EXCEPT !.e.fadeTransitionState.active = FALSE,
                        !.e.fadeTransitionState.onMidPointCallback = "none"]
        ELSE w1

\* renderEffects adding the plant of every finished effect, whether or not
\* removePlant found it
RECURSIVE renderEffectsUnchecked(_, _, _)
renderEffectsUnchecked(w, effects, t) ==
    IF effects = <<>> THEN w
    ELSE LET fx == Head(effects)
             finished == ((t - fx.startTime) * slashFramesPerSecond) \div 1000
                            >= slashColumns
             w1 == IF ~finished
                   THEN [w EXCEPT !.e.activeVisualEffects = Append(@, fx)]
                   ELSE [w EXCEPT !.plants = removePlant(@, fx.targetPlant),
                                  !.inv.plantCounts[fx.plantType] = @ + 1]
         IN  renderEffectsUnchecked(w1, Tail(effects), t)

\* renderEffects: a slash effect that has played its frames removes its plant
\* and, if the plant was still planted, adds it to the inventory
RECURSIVE renderEffects(_, _, _)
renderEffects(w, effects, t) ==
    IF effects = <<>> THEN w
    ELSE LET fx == Head(effects)
             finished == ((t - fx.startTime) * slashFramesPerSecond) \div 1000
                            >= slashColumns
             planted == IndexOfPlant(w.plants, fx.targetPlant) # 0
             w1 == IF ~finished
                   THEN [w EXCEPT !.e.activeVisualEffects = Append(@, fx)]
                   ELSE IF planted
                   THEN [w EXCEPT !.plants = removePlant(@, fx.targetPlant),
                                  !.inv.plantCounts[fx.plantType] = @ + 1]
                   ELSE w
         IN  renderEffects(w1, Tail(effects), t)

\* the steps of updateGameState in the order of the code
planting(w, keys, t, frame) ==
    IF ~w.e.isShopOpen THEN plantingHandler(w, keys, t, frame) ELSE w

\* a level-triggered action key
interactionLevelTriggered(w, keys, t, frame) ==
    LET ePressed == "e" \in keys
        w1 == IF ePressed THEN handleInteractions(w, t, frame) ELSE w
    IN  [w1 EXCEPT !.e.wasInteractionKeyPressed = ePressed]

interaction(w, keys, t, frame) ==
    LET ePressed == "e" \in keys
        w1 == IF ePressed /\ ~w.e.wasInteractionKeyPressed
              THEN handleInteractions(w, t, frame) ELSE w
    IN  [w1 EXCEPT !.e.wasInteractionKeyPressed = ePressed]

watering(w, keys, t, frame) ==
    LET qPressed == "q" \in keys
        w1 == IF qPressed /\ ~w.e.wasQuitShopKeyPressed /\ ~w.e.isShopOpen
              THEN handleWatering(w, t, frame) ELSE w
    IN  [w1 EXCEPT !.e.wasQuitShopKeyPressed = qPressed]

harvesting(w, keys, t, frame) ==
    IF ~w.e.isShopOpen THEN harvestHandler(w, keys, t, frame) ELSE w

shopOrInventoryBar(w, keys, t, frame) ==
    IF w.e.isShopOpen THEN handleShopInput(w, keys)
    ELSE inventoryBarInput(w, keys, t, frame)

\* the second test of the space key, after the shop test
spaceKey(w, keys, t, frame) ==
    LET space == " " \in keys
        w1 == IF space /\ ~w.e.wasSpaceKeyPressed
              THEN useSelectedItem(w, t, frame) ELSE w
    IN  [w1 EXCEPT !.e.wasSpaceKeyPressed = space]

rainWatering(w, t) ==
    IF ~w.e.isInsideBuilding /\ w.time.weather = "storm"
    THEN [w EXCEPT !.plants = waterAllUnwatered(@, Null, t)] ELSE w

\* staminaSystem.update(), its penalty callbacks going to the inventory
staminaUpdate(w) ==
    LET su == StaminaUpdate(w.time, w.st)
    IN  [w EXCEPT !.time = su.time, !.st = su.state, !.log = @ \o su.penalties,
                  !.inv = ApplyPenalties(@, su.penalties)]

\* updateWorldCollisions, updatePlayerMovement, updatePlantGrowth
updateSystems(w, keys, dtMs, t, frame) ==
    LET rects == SceneOf(IF w.e.isInsideBuilding THEN "interior" ELSE "exterior").rects
        moved == updatePlayerMovement(w.pc, keys, dtMs, frame, rects, w.bounds)
    IN  [w EXCEPT !.rects = rects, !.pc = moved.player,
                  !.plants = updatePlantGrowth(@, t)]

\* updateGameState(deltaTimeSeconds), then renderFrame's renderEffects: each
\* step is applied to the state the step before it left
updateGameState(w0, keys, dtMs, t, frame) ==
    LET s1 == {planting(w0, keys, t, frame)}
        s2 == {interaction(w, keys, t, frame) : w \in s1}
        s3 == {watering(w, keys, t, frame) : w \in s2}
        s4 == {harvesting(w, keys, t, frame) : w \in s3}
        s5 == {shopOrInventoryBar(w, keys, t, frame) : w \in s4}
        s6 == {spaceKey(w, keys, t, frame) : w \in s5}
        s7 == {rainWatering(w, t) : w \in s6}
        s8 == {staminaUpdate(w) : w \in s7}
        s9 == {updateFadeTransition(w, t) : w \in s8}
        s10 == {updateSystems(w, keys, dtMs, t, frame) : w \in s9}
        s11 == {renderEffects([w EXCEPT !.e.activeVisualEffects = <<>>],
                              w.e.activeVisualEffects, t) : w \in s10}
    IN  CHOOSE w \in s11 : TRUE

(***************************************************************************)
(* The engine's steps as actions.                                          *)
(***************************************************************************)
\* the engine after its constructor: the components that stand alone start
\* from it
InitEngine ==
    /\ engine = ConstructedEngine
    /\ inventory = InitialInventory
    /\ pressedKeys = {}
    /\ dispatched = {}
    /\ midPointCalls = 0

\* the engine after initialize(), standing in one of the scenes
InitGame ==
    \E map \in StartScenes :
        /\ engine = [ConstructedEngine EXCEPT
                        !.isInsideBuilding = SceneOf(map).inside,
                        !.interactionAreas = SceneOf(map).areas,
                        !.availableShopItems = ShopItems]
        /\ inventory = InitialInventory
        /\ pressedKeys = {}
        /\ dispatched = {}
        /\ midPointCalls = 0
        /\ playerCharacter = [InitialPlayer EXCEPT !.xPosition = StartPosition(map).x,
                                                   !.yPosition = StartPosition(map).y]
        /\ spriteFrame \in {SpriteFrameOf(sheet) : sheet \in SpriteSheets}
        /\ collisionRects = SceneOf(map).rects
        /\ worldBounds = SceneOf(map).world
        /\ frames = 0

\* gameLoop(currentTimestamp) with the keys held down during the frame;
\* ret.ok: handleInteractions ran, ret.n: the zone it resolved (0: none)
Frame(keySets, frameMs, maxFrames) ==
    \E keys \in keySets, dtMs \in frameMs :
        LET t == now + dtMs
            w0 == [e |-> engine, inv |-> inventory, plants |-> plantedEntities,
                   nextId |-> nextId, time |-> timeState, st |-> stamina,
                   log |-> penaltyLog, pc |-> playerCharacter,
                   rects |-> collisionRects, bounds |-> worldBounds, did |-> {},
                   calls |-> midPointCalls]
        IN  \E w \in {updateGameState(w0, keys, dtMs, t, spriteFrame)} :
            /\ frames < maxFrames
            /\ Len(w.plants) <= MaxPlants
            /\ w.nextId <= MaxAllocs + 1
            /\ frames' = frames + 1
            /\ now' = t
            /\ pressedKeys' = keys
            /\ engine' = w.e
            /\ inventory' = w.inv
            /\ plantedEntities' = w.plants
            /\ nextId' = w.nextId
            /\ timeState' = w.time
            /\ stamina' = w.st
            /\ penaltyLog' = w.log
            /\ UNCHANGED listenerVars
            /\ playerCharacter' = w.pc
            /\ collisionRects' = w.rects
            /\ dispatched' = w.did
            /\ midPointCalls' = w.calls
            /\ ret' = [NoRet EXCEPT
                        !.op = "gameLoop",
                        !.ok = "interact" \in w.did,
                        !.n = IF "interact" \in w.did
                              THEN getFeetAdjacentInteraction(
                                       engine.interactionAreas, playerCharacter,
                                       spriteFrame)
                              ELSE 0]
            /\ UNCHANGED <<spriteFrame, worldBounds>>

GameLoop == Frame(EngineKeySets, FrameMs, MaxFrames)

\* a map requested by a transition callback is loaded, or fails to load: the
\* rest of the callback of enterHouse / exitHouse
MapLoaded ==
    \E i \in 1..Len(engine.pendingMaps), loaded \in BOOLEAN :
        LET scene == SceneOf(engine.pendingMaps[i])
            rest == SeqRemoveAt(engine.pendingMaps, i)
        IN  /\ IF loaded
               THEN /\ engine' = [engine EXCEPT !.pendingMaps = rest,
                                                !.isInsideBuilding = scene.inside,
                                                !.interactionAreas = scene.areas]
                    /\ worldBounds' = scene.world
                    /\ playerCharacter' = [playerCharacter EXCEPT
                                              !.xPosition = scene.spawn.x,
                                              !.yPosition = scene.spawn.y]
                    /\ collisionRects' = scene.rects
               ELSE /\ engine' = [engine EXCEPT !.pendingMaps = rest]
                    /\ UNCHANGED <<worldBounds, playerCharacter, collisionRects>>
            /\ ret' = [NoRet EXCEPT !.op = "mapLoaded", !.ok = loaded]
            /\ UNCHANGED <<now, plantVars, clockVars, spriteFrame, frames,
                           inventory, pressedKeys, dispatched, midPointCalls>>

NextEngine ==
    \/ GameLoop
    \/ MapLoaded


(***************************************************************************)
(* The fade transition on its own: transitions started at any moment, by   *)
(* the callers of startFadeTransition, between frames of any length.       *)
(***************************************************************************)
\* enterHouse, exitHouse and sleepAtBed: the callback and the duration each
\* passes to startFadeTransition
FadeCallers ==
    { [callback |-> "enterHouse", durationMs |-> defaultFadeMs],
      [callback |-> "exitHouse", durationMs |-> defaultFadeMs],
      [callback |-> "sleep", durationMs |-> bedFadeMs] }
FadeFrameMs == {100, 300}

\* startFadeTransition(onMidPointCallback, durationMs); ret.ok: a transition
\* was active and had not reached its midpoint, ret.n: durationMs
StartFade ==
    \E c \in FadeCallers :
        /\ engine' = startFadeTransition(engine, c.callback, c.durationMs, now)
        /\ midPointCalls' = 0
        /\ ret' = [NoRet EXCEPT
                    !.op = "startFadeTransition",
                    !.ok = /\ engine.fadeTransitionState.active
                           /\ ~engine.fadeTransitionState.midPointFired,
                    !.n = c.durationMs]
        /\ UNCHANGED <<now, plantVars, clockVars, moveVars, inventory, pressedKeys,
                       dispatched>>

\* the fade update of a frame dtMs after the last; ret.ok: the midpoint
\* callback was called, ret.n: dtMs
FadeFrame ==
    \E dtMs \in FadeFrameMs :
        LET t == now + dtMs
            w0 == [e |-> engine, inv |-> inventory, plants |-> plantedEntities,
                   nextId |-> nextId, time |-> timeState, st |-> stamina,
                   log |-> penaltyLog, pc |-> playerCharacter,
                   rects |-> collisionRects, bounds |-> worldBounds, did |-> {},
                   calls |-> midPointCalls]
        IN  \E w \in {updateFadeTransition(w0, t)} :
            /\ frames < MaxFadeFrames
            /\ frames' = frames + 1
            /\ now' = t
            /\ engine' = w.e
            /\ timeState' = w.time
            /\ stamina' = w.st
            /\ dispatched' = w.did
            /\ midPointCalls' = w.calls
            /\ ret' = [NoRet EXCEPT !.op = "fadeFrame", !.ok = "midPoint" \in w.did,
                                    !.n = dtMs]
            /\ UNCHANGED <<plantVars, penaltyLog, listenerVars, playerCharacter,
                           spriteFrame, collisionRects, worldBounds, inventory,
                           pressedKeys>>

NextTransition ==
    \/ StartFade
    \/ FadeFrame
    \/ MapLoaded

(***************************************************************************)
(* The inventory's operations as actions, on an inventory constructed with *)
(* each of the starting coins considered.                                  *)
(***************************************************************************)
StartingCoins == {0, 10}
HarvestTypes == {"eye", "tentacle", "mushroom"}
SpendAmounts == {-3, 0, 5, 8, 12}
CoinChanges == {-15, -5, 5}
WaterUnits == {-1, 1, 11}

InitInventory ==
    /\ InitPlants /\ InitClock(100) /\ InitMovement
    /\ engine = ConstructedEngine
    /\ pressedKeys = {}
    /\ dispatched = {}
    /\ midPointCalls = 0
    /\ \E coins \in StartingCoins :
            inventory = [InitialInventory EXCEPT !.totalCoins = coins]

outsideInventory ==
    <<now, plantVars, clockVars, moveVars, engine, pressedKeys, dispatched,
      midPointCalls>>

\* inventory.addPlant(plantType), as a slash effect's end calls it
AddPlant ==
    \E plantType \in HarvestTypes :
        /\ TotalPlantCount(inventory) < MaxHeld
        /\ inventory' = addPlant(inventory, plantType)
        /\ ret' = [NoRet EXCEPT !.op = "addPlant", !.ok = TRUE]
        /\ UNCHANGED outsideInventory

\* inventory.spendCoins(coinAmount); ret.ok: its result, ret.n: the amount
SpendCoins ==
    \E amount \in SpendAmounts :
        /\ inventory' = spendCoins(inventory, amount)
        /\ ret' = [NoRet EXCEPT !.op = "spendCoins",
                                !.ok = spendCoinsOk(inventory, amount),
                                !.n = amount]
        /\ UNCHANGED outsideInventory

\* the ship interaction; ret.ok: plants were sold, ret.n: the coinsGained
\* reported, ret.x: the coins before
Ship ==
    LET r == shipInteraction(inventory)
    IN  /\ r.inv.totalCoins <= MaxCoins
        /\ inventory' = r.inv
        /\ ret' = [NoRet EXCEPT !.op = "ship", !.ok = r.sold,
                                !.n = r.coinsGained, !.x = inventory.totalCoins]
        /\ UNCHANGED outsideInventory

\* inventory.modifyCoins(coinAmountChange)
ModifyCoins ==
    \E change \in CoinChanges :
        /\ modifyCoins(inventory, change).totalCoins <= MaxCoins
        /\ inventory' = modifyCoins(inventory, change)
        /\ ret' = [NoRet EXCEPT !.op = "modifyCoins", !.n = change]
        /\ UNCHANGED outsideInventory

\* a coin penalty of the stamina system, delivered to the engine's callback
CoinPenalty ==
    \E amount \in CoinChanges :
        /\ inventory' = onCoinsChanged(inventory, amount)
        /\ ret' = [NoRet EXCEPT !.op = "onCoinsChanged", !.n = amount,
                                !.x = inventory.totalCoins]
        /\ UNCHANGED outsideInventory

\* inventory.useWater(waterUnits); ret.ok: its result, ret.n: the units asked
\* for, ret.x: the water before
UseWater ==
    \E waterUnits \in WaterUnits :
        /\ useWater(inventory, waterUnits).currentWaterAmount <= MaxWater
        /\ inventory' = useWater(inventory, waterUnits)
        /\ ret' = [NoRet EXCEPT !.op = "useWater",
                                !.ok = useWaterOk(inventory, waterUnits),
                                !.n = waterUnits,
                                !.x = inventory.currentWaterAmount]
        /\ UNCHANGED outsideInventory

\* the well interaction: inventory.refillWater()
Well ==
    /\ inventory' = refillWater(inventory)
    /\ ret' = [NoRet EXCEPT !.op = "well"]
    /\ UNCHANGED outsideInventory

NextInventory ==
    \/ AddPlant
    \/ SpendCoins
    \/ Ship
    \/ ModifyCoins
    \/ CoinPenalty
    \/ UseWater
    \/ Well

(***************************************************************************)
(* Specifications: the state after construction, and one next-state        *)
(* relation per component.                                                 *)
(***************************************************************************)
Init == InitPlants /\ InitClock(100) /\ InitMovement /\ InitEngine

\* the stamina system constructed with each of the configurations considered
InitConfigured ==
    InitPlants /\ InitMovement /\ InitEngine /\ \E m \in MaxStaminaConfigs : InitClock(m)

\* the game after initialize() has loaded the sprite and a map
InitInitialized == InitPlants /\ InitClock(100) /\ InitGame

(***************************************************************************)
(* Farming: the game loop over the seconds a seed takes to grow, under the *)
(* keys that plant, water and harvest, with the registry's removePlant and *)
(* the ship interaction called in between.                                 *)
(***************************************************************************)
FarmKeySets == { {}, {" "}, {"q"}, {"h"} }
FarmFrameMs == {400, growthDurationSeconds * 1000}

FarmLoop == Frame(FarmKeySets, FarmFrameMs, MaxFarmFrames)

NextFarm ==
    \/ FarmLoop
    \/ RemovePlant
    \/ Ship

(***************************************************************************)
(* The shop and the inventory bar: the engine's methods that read or write *)
(* the bar's slots and the coins, called in any order.                     *)
(***************************************************************************)
\* stocks refreshShopItems can draw: 3 or 4 types of the catalog, each at its
\* base price -2..+2
ShopStocks ==
    { ShopItems,
      <<[plantType |-> "jaws", price |-> 10], [plantType |-> "orb", price |-> 15],
        [plantType |-> "mushroom", price |-> 5]>> }
ShopKeySets == { {}, {"enter"}, {"arrowdown"} }

\* the seeds of the bar
SeedTotal(slots) ==
    SumOver([i \in 1..Len(slots) |-> IF slots[i].kind = "seed" THEN slots[i].count ELSE 0],
            1..Len(slots))

EngineRecord ==
    [e |-> engine, inv |-> inventory, plants |-> plantedEntities,
     nextId |-> nextId, time |-> timeState, st |-> stamina,
     log |-> penaltyLog, pc |-> playerCharacter,
     rects |-> collisionRects, bounds |-> worldBounds, did |-> {},
     calls |-> midPointCalls]

\* refreshShopItems(day, seasonIndex), as the clock's listener calls it
RefreshShopItems ==
    \E stock \in ShopStocks :
        /\ engine' = [engine EXCEPT !.availableShopItems = stock,
                                    !.selectedShopItemIndex = 0]
        /\ ret' = [NoRet EXCEPT !.op = "refreshShopItems", !.n = Len(stock)]
        /\ UNCHANGED <<now, plantVars, clockVars, moveVars, inventory, pressedKeys,
                       dispatched, midPointCalls>>

\* handleInteractions() where the player stands; ret.n: the zone resolved
HandleInteractions ==
    \E w \in {handleInteractions(EngineRecord, now, spriteFrame)} :
        /\ ~w.e.fadeTransitionState.active
        /\ engine' = w.e
        /\ inventory' = w.inv
        /\ ret' = [NoRet EXCEPT
                    !.op = "handleInteractions",
                    !.ok = w.e.isShopOpen,
                    !.n = getFeetAdjacentInteraction(engine.interactionAreas,
                                                     playerCharacter, spriteFrame)]
        /\ UNCHANGED <<now, plantVars, clockVars, moveVars, pressedKeys, dispatched,
                       midPointCalls>>

\* handleShopInput() of a frame with the shop open, under the keys held;
\* ret.x: Enter was newly pressed (1), ret.ok: spendCoins returned true
HandleShopInput ==
    \E keys \in ShopKeySets :
        \E w \in {handleShopInput(EngineRecord, keys)} :
            /\ engine.isShopOpen
            /\ SeedTotal(w.e.playerInventorySlots) + (nextId - 1)
                    <= SeedTotal(ConstructedEngine.playerInventorySlots) + MaxBought
            /\ engine' = w.e
            /\ inventory' = w.inv
            /\ pressedKeys' = keys
            /\ ret' = [NoRet EXCEPT
                        !.op = "handleShopInput",
                        !.x = IF "purchase" \in w.did THEN 1 ELSE 0,
                        !.ok = w.inv.totalCoins < inventory.totalCoins]
            /\ UNCHANGED <<now, plantVars, clockVars, moveVars, dispatched,
                           midPointCalls>>

\* moveSelection(dir), which the inventory bar's keys call while the shop is
\* closed
MoveSelection ==
    \E dir \in {-1, 1} :
        /\ ~engine.isShopOpen
        /\ engine' = moveSelection(engine, dir)
        /\ ret' = [NoRet EXCEPT !.op = "moveSelection"]
        /\ UNCHANGED <<now, plantVars, clockVars, moveVars, inventory, pressedKeys,
                       dispatched, midPointCalls>>

\* useSelectedItem(): a seed of the selected slot planted in front of the
\* player; ret.ok: it was planted
UseSelectedItem ==
    \E w \in {useSelectedItem(EngineRecord, now, spriteFrame)} :
        /\ w.nextId <= MaxAllocs + 1
        /\ engine' = w.e
        /\ plantedEntities' = w.plants
        /\ nextId' = w.nextId
        /\ ret' = [NoRet EXCEPT !.op = "useSelectedItem", !.ok = w.nextId # nextId]
        /\ UNCHANGED <<now, clockVars, moveVars, inventory, pressedKeys, dispatched,
                       midPointCalls>>

\* a harvested eye plant sold: addPlant at the end of its slash effect and
\* then the ship interaction, the only source of coins
SellHarvest ==
    LET r == shipInteraction(addPlant(inventory, "eye"))
    IN  /\ r.inv.totalCoins <= MaxCoins
        /\ inventory' = r.inv
        /\ ret' = [NoRet EXCEPT !.op = "ship", !.ok = r.sold, !.n = r.coinsGained]
        /\ UNCHANGED outsideInventory

NextShop ==
    \/ RefreshShopItems
    \/ HandleInteractions
    \/ HandleShopInput
    \/ MoveSelection
    \/ UseSelectedItem
    \/ SellHarvest

SpecPlants == Init /\ [][NextPlants]_vars
SpecStamina == InitConfigured /\ [][NextStamina]_vars
SpecMovement == Init /\ [][NextMovement]_vars
SpecEngine == InitInitialized /\ [][NextEngine]_vars
SpecClock == Init /\ [][NextClock]_vars
SpecInventory == InitInventory /\ [][NextInventory]_vars
SpecTransition == InitInitialized /\ [][NextTransition]_vars
SpecKeys == Init /\ [][NextKeys]_vars
SpecFarm == InitInitialized /\ [][NextFarm]_vars
SpecShop == InitInitialized /\ [][NextShop]_vars

(***************************************************************************)
(* Properties of the plant registry.                                       *)
(***************************************************************************)
InsideBox(p, x, y) ==
    /\ Abs(p.xPosition - x) < Px(spacingThreshold)
    /\ Abs(p.yPosition - y) < Px(spacingThreshold)

SpacingHolds(plants) ==
    \A i, j \in 1..Len(plants) :
        i # j => ~InsideBox(plants[i], plants[j].xPosition, plants[j].yPosition)

\* C1: no two live plants are inside each other's spacing box after any call;
\* a handlePlantingClick inside an existing plant's box returns false and
\* leaves the registry unchanged; a click with at least one axis delta >=
\* spacingThreshold from every plant returns true and the registry grows by
\* one entity, placed at the click.
C1_SpacingInvariant ==
    [][ /\ SpacingHolds(plantedEntities')
        /\ (ret'.op = "plant" =>
              IF \E i \in 1..Len(plantedEntities) :
                    InsideBox(plantedEntities[i], ret'.x, ret'.y)
              THEN /\ ret'.ok = FALSE
                   /\ plantedEntities' = plantedEntities
              ELSE /\ ret'.ok = TRUE
                   /\ Len(plantedEntities') = Len(plantedEntities) + 1
                   /\ SubSeq(plantedEntities', 1, Len(plantedEntities)) = plantedEntities
                   /\ plantedEntities'[Len(plantedEntities')].xPosition = ret'.x
                   /\ plantedEntities'[Len(plantedEntities')].yPosition = ret'.y)
      ]_vars

\* C1 witness: a click was just rejected while two plants stand in the registry
C1_Witness ==
    /\ ret.op = "plant"
    /\ ret.ok = FALSE
    /\ Len(plantedEntities) = 2
    /\ \E i \in 1..Len(plantedEntities) : InsideBox(plantedEntities[i], ret.x, ret.y)

\* C2: a grown plant is a watered plant; a plant that was never watered is
\* not grown, whatever time has passed since it was planted.
C2_GrowthGating ==
    \A i \in 1..Len(plantedEntities) :
        plantedEntities[i].hasGrown => plantedEntities[i].watered

\* C2 witness: updatePlantGrowth has just run over an unwatered plant planted
\* at least growthDurationSeconds ago
C2_Witness ==
    /\ ret.op = "grow"
    /\ \E i \in 1..Len(plantedEntities) :
          /\ ~plantedEntities[i].watered
          /\ ~plantedEntities[i].hasGrown
          /\ now - plantedEntities[i].plantingTime >= growthDurationSeconds * 1000

\* C3: after updatePlantGrowth at time t a watered plant is grown exactly when
\* t - wateringStartTime >= growthDurationSeconds; every watered plant has a
\* wateringStartTime; a grown plant stays grown while it is in the registry.
C3_GrowthTiming ==
    [][ /\ (ret'.op = "grow" =>
              \A i \in 1..Len(plantedEntities') :
                  plantedEntities'[i].watered =>
                      (plantedEntities'[i].hasGrown <=>
                          now' - plantedEntities'[i].wateringStartTime
                              >= growthDurationSeconds * 1000))
        /\ (\A i \in 1..Len(plantedEntities') :
              plantedEntities'[i].watered => plantedEntities'[i].wateringStartTime # Null)
        /\ (\A i \in 1..Len(plantedEntities), j \in 1..Len(plantedEntities') :
              (plantedEntities[i].id = plantedEntities'[j].id /\ plantedEntities[i].hasGrown)
                  => plantedEntities'[j].hasGrown)
      ]_vars

\* C3 witness: updatePlantGrowth has just run; one plant is grown exactly
\* growthDurationSeconds after its watering, another was watered later than
\* it was planted and is not grown although planted growthDurationSeconds ago
C3_Witness ==
    /\ ret.op = "grow"
    /\ \E i, j \in 1..Len(plantedEntities) :
          /\ plantedEntities[i].hasGrown
          /\ now - plantedEntities[i].wateringStartTime = growthDurationSeconds * 1000
          /\ plantedEntities[j].watered
          /\ ~plantedEntities[j].hasGrown
          /\ plantedEntities[j].plantingTime < plantedEntities[j].wateringStartTime
          /\ now - plantedEntities[j].plantingTime >= growthDurationSeconds * 1000

(***************************************************************************)
(* Properties of the stamina clock.                                        *)
(***************************************************************************)

\* C4: after construction and after every update(), sleep() and auto-sleep,
\* interleaved with updateTime calls, 0 <= current <= maximum, also before the
\* first 7 AM when the hours since the last sleep are negative.
C4_StaminaBounds ==
    /\ 0 <= stamina.current
    /\ stamina.current <= stamina.maximum

\* C4 witness: update() has just run before the first 7 AM, with negative
\* hours since the last sleep
C4_Witness ==
    /\ ret.op = "update"
    /\ TotalHoursFloat(timeState) < stamina.lastSleepTime
    /\ stamina.current = stamina.maximum

\* C5: the coin-penalty callback is invoked at most once for a given day
\* number, always with -midnightPenalty; after an update() that computed a
\* stamina of 0 it has been invoked exactly once for the day of that call.
C5_PenaltyOncePerDay ==
    /\ \A i, j \in 1..Len(penaltyLog) :
          i # j => penaltyLog[i].day # penaltyLog[j].day
    /\ \A i \in 1..Len(penaltyLog) : penaltyLog[i].amount = -midnightPenalty
    /\ (ret.op = "update" /\ ret.ok) =>
          Cardinality({i \in 1..Len(penaltyLog) : penaltyLog[i].day = ret.x}) = 1

\* C5 witness: update() has just computed a stamina of 0 again on a day whose
\* penalty was already applied, and invoked nothing
C5_Witness ==
    /\ ret.op = "update"
    /\ ret.ok
    /\ ret.n = 0
    /\ \E i \in 1..Len(penaltyLog) : penaltyLog[i].day = timeState.day

(***************************************************************************)
(* Properties of the motion controller.                                    *)
(***************************************************************************)
\* the feet box at the position resolveCollisions returned overlaps the
\* i-th rectangle supplied
FeetOverlap(i) ==
    Overlaps(FeetBox([x |-> ret.x, y |-> ret.y], spriteFrame), collisionRects[i])

\* C6: once resolveCollisions has run in a frame, with the sprite's
\* dimensions initialised, the feet box overlaps none of the rectangles
\* supplied, whatever the list, the position and the displacement.
C6_CollisionContainment ==
    (ret.op = "updatePlayerMovement" /\ ret.ok)
        => \A i \in 1..Len(collisionRects) : ~FeetOverlap(i)

(***************************************************************************)
(* Properties of the engine's frame.  A frame is a GameLoop step, the one  *)
(* that advances frames; dispatched holds the handlers the frame ran and   *)
(* pressedKeys the keys that were down in it.                              *)
(***************************************************************************)
IsFrame == frames' = frames + 1

\* C7: a fade transition that is not overwritten invokes its midpoint callback
\* exactly once, in the first frame update at or after half its duration and
\* never earlier, and is inactive again from the first update at or after its
\* full duration; later updates never invoke the callback again
C7_FadeOneShot ==
    LET f == engine.fadeTransitionState
        elapsed == now - f.startTime
        started == f.active \/ f.midPointFired
    IN  /\ started =>
            /\ midPointCalls = (IF 2 * elapsed >= f.duration THEN 1 ELSE 0)
            /\ f.midPointFired <=> (2 * elapsed >= f.duration)
            /\ f.active <=> (elapsed < f.duration)
        /\ ~started => midPointCalls = 0

\* the bed's transition has ended, its callback invoked once
C7_Witness ==
    /\ ~engine.fadeTransitionState.active
    /\ engine.fadeTransitionState.midPointFired
    /\ engine.fadeTransitionState.duration = bedFadeMs
    /\ midPointCalls = 1

\* the door's transition is past its midpoint and not over: the callback has
\* been invoked and the fade is still active
C7_WitnessFading ==
    /\ engine.fadeTransitionState.active
    /\ engine.fadeTransitionState.midPointFired
    /\ engine.fadeTransitionState.duration = defaultFadeMs
    /\ midPointCalls = 1

ManhattanTiles(a, ft) == Abs(ft.x - TileOf(a.x)) + Abs(ft.y - TileOf(a.y))

\* C8: a dispatched interaction resolves to the first zone of the zone list
\* whose tile is at Manhattan distance at most 1 from the tile of the player's
\* feet, and to none when no zone qualifies; a zone that is only diagonally
\* adjacent is never the one, and an earlier qualifying zone wins over a later
\* one whatever their kinds and distances.  The zone's effect is the one that
\* happens: the storefront opens the shop, the well refills the water
C8_InteractionResolution ==
    [][(IsFrame /\ ret'.ok) =>
        LET areas == engine.interactionAreas
            ft == FeetTile(playerCharacter, spriteFrame)
            n == ret'.n
        IN  /\ n \in 0..Len(areas)
            /\ n # 0 => ManhattanTiles(areas[n], ft) <= 1
            /\ \A i \in 1..Len(areas) :
                    (n = 0 \/ i < n) => ManhattanTiles(areas[i], ft) > 1
            /\ (~engine.isShopOpen /\ engine'.isShopOpen)
                    => (n # 0 /\ areas[n].kind = "storefront")
            /\ (n # 0 /\ areas[n].kind = "well")
                    => inventory'.currentWaterAmount = waterCapacity
            /\ (engine'.fadeTransitionState.startTime = now'
                    /\ engine'.fadeTransitionState.active)
                    => (n # 0 /\ areas[n].kind \in {"enterHouse", "exitHouse", "bed"})
    ]_vars

\* the E key alone was pressed where the first zone qualifies and a later zone,
\* on the player's own tile, is closer: the first zone was taken
C8_Witness ==
    /\ ret.op = "gameLoop" /\ ret.ok /\ pressedKeys = {"e"}
    /\ ret.n = 1
    /\ \E j \in 2..Len(engine.interactionAreas) :
            ManhattanTiles(engine.interactionAreas[j],
                           FeetTile(playerCharacter, spriteFrame)) = 0

\* the E key alone was pressed where an earlier zone is diagonally adjacent:
\* a later zone was taken
C8_WitnessDiagonal ==
    /\ ret.op = "gameLoop" /\ ret.ok /\ pressedKeys = {"e"}
    /\ ret.n > 1
    /\ \E j \in 1..(ret.n - 1) :
            LET a == engine.interactionAreas[j]
                ft == FeetTile(playerCharacter, spriteFrame)
            IN  Abs(ft.x - TileOf(a.x)) = 1 /\ Abs(ft.y - TileOf(a.y)) = 1

\* the E key alone was pressed where no zone qualifies
C8_WitnessNull ==
    /\ ret.op = "gameLoop" /\ ret.ok /\ pressedKeys = {"e"} /\ ret.n = 0
    /\ engine.interactionAreas # <<>>

shopBlockedHandlers ==
    {"plant", "water", "harvest", "useItem", "moveSelection", "interact"}

\* C9: in a frame that begins with the shop open, none of planting, watering,
\* harvesting, selected-item use, inventory-slot selection and zone
\* interaction is performed
C9_ShopModality ==
    [][(IsFrame /\ engine.isShopOpen) => dispatched' \cap shopBlockedHandlers = {}]_vars

\* C10: handleInteractions is dispatched in a frame exactly when the E key is
\* down in that frame and was up in the frame before, so that a held key
\* dispatches once and a second dispatch needs a frame with the key released
C10_EdgeTriggeredInteraction ==
    [][IsFrame =>
        (("interact" \in dispatched') <=> ("e" \in pressedKeys' /\ "e" \notin pressedKeys))
    ]_vars

\* the E key is down in a frame that did not dispatch: it was held from the
\* frame before
C10_Witness ==
    /\ ret.op = "gameLoop" /\ frames >= 2
    /\ "e" \in pressedKeys
    /\ "interact" \notin dispatched
    /\ engine.wasInteractionKeyPressed

(***************************************************************************)
(* Further properties of the clock and the stamina system.                 *)
(***************************************************************************)
\* the hour of the clock's state
HourOf(ts) == getCurrentGameTime(ts).hour

\* C11: an update() that computes a stamina of 0 on a day later than
\* lastPenaltyDay invokes the coin-penalty callback in that call, sets
\* lastPenaltyDay to the day at the start of the call, warps the clock to
\* 7 AM, of the next day iff the hour was >= 7 and of the same day otherwise,
\* and leaves current = maximum, hasSleptToday set and lastSleepTime at the
\* new continuous clock time
C11_AutoSleepOnExhaustion ==
    [][(ret'.op = "update" /\ ret'.ok /\ stamina.lastPenaltyDay < timeState.day) =>
        /\ penaltyLog' = Append(penaltyLog,
                                [day |-> timeState.day, amount |-> -midnightPenalty])
        /\ stamina'.lastPenaltyDay = timeState.day
        /\ timeState'.secondsIntoDay = HourTicks(7)
        /\ HourOf(timeState') = 7
        /\ timeState'.day = IF HourOf(timeState) >= 7
                            THEN timeState.day + 1 ELSE timeState.day
        /\ stamina'.current = stamina'.maximum
        /\ stamina'.maximum = stamina.maximum
        /\ stamina'.hasSleptToday
        /\ stamina'.lastSleepTime = TotalHoursFloat(timeState')
    ]_vars

\* update() has just collapsed the player after midnight and before 7 AM: the
\* day was kept
C11_Witness ==
    /\ ret.op = "update" /\ ret.ok /\ ret.n = 1
    /\ timeState.day = ret.x
    /\ stamina.lastPenaltyDay = ret.x
    /\ stamina.current = stamina.maximum

\* update() has just collapsed the player at or after 7 AM: the day advanced
C11_WitnessNextDay ==
    /\ ret.op = "update" /\ ret.ok /\ ret.n = 1
    /\ timeState.day = ret.x + 1
    /\ stamina.lastPenaltyDay = ret.x

\* C12: sleep() called when the hour is < 7 leaves the day unchanged and called
\* when the hour is >= 7 increments it by exactly one; in both cases the hour
\* is 7 afterwards, current = maximum, hasSleptToday is set, showedSleepReminder
\* is clear and lastSleepTime = (day - 1) * 24 + 7 for the new day
C12_VoluntarySleep ==
    [][(ret'.op = "sleep") =>
        /\ timeState'.day = IF HourOf(timeState) < 7
                            THEN timeState.day ELSE timeState.day + 1
        /\ HourOf(timeState') = 7
        /\ stamina'.current = stamina.maximum
        /\ stamina'.maximum = stamina.maximum
        /\ stamina'.hasSleptToday
        /\ ~stamina'.showedSleepReminder
        /\ stamina'.lastSleepTime = (timeState'.day - 1) * TicksPerDay + HourTicks(7)
    ]_vars

\* sleep() has just been called before 7 AM of a day after the first, with
\* stamina spent: the day was kept
C12_Witness ==
    /\ ret.op = "sleep"
    /\ ret.x > 1
    /\ timeState.day = ret.x
    /\ stamina.current = stamina.maximum

\* sleep() has just been called at or after 7 AM: the day advanced
C12_WitnessNextDay ==
    /\ ret.op = "sleep"
    /\ timeState.day = ret.x + 1

\* the stamina of a linear depletion from maximum to 0 in 17 hours, for the
\* clock ts and the state st
SeventeenHourStamina(st, ts) ==
    LET hoursSinceLastSleep == TotalHoursFloat(ts) - st.lastSleepTime
    IN  Max(0, st.maximum - hoursSinceLastSleep * 24 * (st.maximum \div StaminaUnit))

\* C13: whatever the configured maximum M, after update() the stamina is
\* max(0, M - h * (M / 17)), h being the continuous hours since the last
\* sleep (taken from the wake-up on), so that it first reaches 0 17 hours after
\* waking
C13_DepletionRate ==
    (ret.op = "update" /\ TotalHoursFloat(timeState) >= stamina.lastSleepTime)
        => stamina.current = SeventeenHourStamina(stamina, timeState)

\* a step that is a sleep event: sleep(), or an update() that auto-sleeps
SleepEvent == ret'.op = "sleep" \/ (ret'.op = "update" /\ ret'.n = 1)

\* C14: between two sleep events the stamina observed after successive
\* update() calls, interleaved with updateTime calls and day rollovers, never
\* increases; it increases only at a sleep event, and a sleep event leaves it
\* at the maximum
C14_MonotonicDecay ==
    [][/\ stamina'.current > stamina.current => SleepEvent
       /\ SleepEvent => stamina'.current = stamina'.maximum
       /\ (ret'.op = "update" /\ ~SleepEvent) => stamina'.current <= stamina.current
    ]_vars

\* an update() that did not sleep has just observed a stamina partly spent
C14_Witness ==
    /\ ret.op = "update" /\ ret.n = 0
    /\ 0 < stamina.current
    /\ stamina.current < stamina.maximum
    /\ timeState.day > 1

\* C15: updateTime(delta) with secondsIntoDay + delta >= dayDurationSeconds
\* increments the day by exactly one and sets secondsIntoDay to 0, whatever
\* the overflow, also for a delta of several day lengths; otherwise the day is
\* unchanged and secondsIntoDay increases by delta
C15_RolloverTruncates ==
    [][(ret'.op = "updateTime") =>
        IF timeState.secondsIntoDay + ret'.n >= TicksPerDay
        THEN /\ timeState'.day = timeState.day + 1
             /\ timeState'.secondsIntoDay = 0
             /\ timeState'.seasonIndex = FloorDiv(timeState.day, 10) % 4
        ELSE /\ timeState'.day = timeState.day
             /\ timeState'.secondsIntoDay = timeState.secondsIntoDay + ret'.n
             /\ timeState'.seasonIndex = timeState.seasonIndex
    ]_vars

\* updateTime has just been called with a delta of more than two day lengths
\* on the first day: the clock is at the start of day 2
C15_Witness ==
    /\ ret.op = "updateTime"
    /\ ret.n > 2 * TicksPerDay
    /\ timeState.day = 2
    /\ timeState.secondsIntoDay = 0
    /\ penaltyLog = <<>>
    /\ stamina.lastSleepTime = HourTicks(7)

\* updateTime has just been called with a delta that stays inside the day
C15_WitnessSameDay ==
    /\ ret.op = "updateTime"
    /\ timeState.secondsIntoDay = ret.n
    /\ timeState.day = 1

\* C16: from day 1 with seasonIndex 0, after any sequence of updateTime,
\* setTimeToHour (hour in 0..23, with or without a day advance) and setWeather
\* calls, seasonIndex = floor((day - 1) / 10) mod 4, day >= 1 and never
\* decreases, and 0 <= secondsIntoDay < dayDurationSeconds
C16_SeasonInvariant ==
    /\ [](/\ timeState.seasonIndex = FloorDiv(timeState.day - 1, 10) % 4
          /\ timeState.day >= 1
          /\ 0 <= timeState.secondsIntoDay
          /\ timeState.secondsIntoDay < TicksPerDay)
    /\ [][timeState'.day >= timeState.day]_vars

\* setTimeToHour with a day advance has just entered day 31: the fourth season
C16_Witness ==
    /\ ret.op = "setTimeToHour" /\ ret.ok
    /\ timeState.day = 31
    /\ timeState.seasonIndex = 3

\* updateTime has just rolled over into day 41: the first season again
C16_WitnessWrap ==
    /\ ret.op = "updateTime"
    /\ timeState.day = 41
    /\ timeState.seasonIndex = 0

(***************************************************************************)
(* Further properties of the plant registry.                               *)
(***************************************************************************)
\* every plant watered before the step and still planted after it has kept
\* its watered flag and its wateringStartTime
WateredKept ==
    \A i \in 1..Len(plantedEntities) : \A j \in 1..Len(plantedEntities') :
        (plantedEntities[i].watered /\ plantedEntities'[j].id = plantedEntities[i].id)
            => /\ plantedEntities'[j].watered
               /\ plantedEntities'[j].wateringStartTime
                    = plantedEntities[i].wateringStartTime

\* the plant waterAtTile finds on the tile (tx, ty), the first not grown, is
\* already watered
TilePlantWatered(tx, ty) ==
    \E i \in 1..Len(plantedEntities) :
        LET onTile(k) == /\ ~plantedEntities[k].hasGrown
                         /\ TileOf(plantedEntities[k].xPosition) = tx
                         /\ TileOf(plantedEntities[k].yPosition) = ty
        IN  /\ onTile(i)
            /\ plantedEntities[i].watered
            /\ \A k \in 1..(i - 1) : ~onTile(k)

NothingToWater ==
    \A i \in 1..Len(plantedEntities) :
        plantedEntities[i].hasGrown \/ plantedEntities[i].watered

\* C17: watering never restarts the growth timer: no call changes the watered
\* flag or the wateringStartTime of a plant already watered; waterAtTile on a
\* tile whose plant is already watered returns false and changes nothing,
\* waterNearest that finds no unwatered plant changes nothing, and
\* waterAllUnwatered leaves nothing to water, so that a call of it with nothing
\* planted since the last one returns 0 and changes nothing
C17_WateringIdempotent ==
    [][/\ WateredKept
       /\ (ret'.op = "waterAtTile" /\ TilePlantWatered(ret'.x, ret'.y))
            => (~ret'.ok /\ plantedEntities' = plantedEntities)
       /\ (ret'.op = "waterNearest" /\ ~ret'.ok) => plantedEntities' = plantedEntities
       /\ (ret'.op = "waterAll") =>
            /\ \A j \in 1..Len(plantedEntities') :
                    plantedEntities'[j].hasGrown \/ plantedEntities'[j].watered
            /\ NothingToWater => (ret'.n = 0 /\ plantedEntities' = plantedEntities)
    ]_vars

\* waterAllUnwatered has just been called, and returned 0, some time after a seed
\* not yet grown was watered: the seed's timer still runs from its first
\* watering
C17_Witness ==
    /\ ret.op = "waterAll" /\ ret.n = 0
    /\ \E i \in 1..Len(plantedEntities) :
          /\ plantedEntities[i].watered
          /\ ~plantedEntities[i].hasGrown
          /\ plantedEntities[i].wateringStartTime < now

\* waterAtTile has just returned false on a tile whose seed is watered
C17_WitnessTile ==
    /\ ret.op = "waterAtTile" /\ ~ret.ok
    /\ \E i \in 1..Len(plantedEntities) :
          /\ plantedEntities[i].watered
          /\ ~plantedEntities[i].hasGrown
          /\ TileOf(plantedEntities[i].xPosition) = ret.x
          /\ TileOf(plantedEntities[i].yPosition) = ret.y
          /\ plantedEntities[i].wateringStartTime < now

(***************************************************************************)
(* Further properties of the motion controller.                            *)
(***************************************************************************)
\* C18: with the sprite's dimensions initialised and a world size of at least
\* one sprite, after every updatePlayerMovement the player's position is at
\* least half a sprite inside the world on every side, whatever the keys, the
\* delta time and the collision rectangles: the clamp comes after the
\* collision resolution
C18_WorldBoundsClamp ==
    LET halfWidth == DisplaySize(spriteFrame.width) \div 2
        halfHeight == DisplaySize(spriteFrame.height) \div 2
    IN  (/\ ret.op = "updatePlayerMovement" /\ ret.ok
         /\ worldBounds # NoBounds
         /\ worldBounds.width >= 2 * halfWidth
         /\ worldBounds.height >= 2 * halfHeight)
        => /\ halfWidth <= playerCharacter.xPosition
           /\ playerCharacter.xPosition <= worldBounds.width - halfWidth
           /\ halfHeight <= playerCharacter.yPosition
           /\ playerCharacter.yPosition <= worldBounds.height - halfHeight

\* the collision resolution has just pushed the player out of the world on the
\* left, and the clamp has put the player back at half a sprite from the edge
C18_Witness ==
    /\ ret.op = "updatePlayerMovement" /\ ret.ok
    /\ worldBounds # NoBounds
    /\ ret.x < DisplaySize(spriteFrame.width) \div 2
    /\ playerCharacter.xPosition = DisplaySize(spriteFrame.width) \div 2

(***************************************************************************)
(* Properties of the inventory.                                            *)
(***************************************************************************)
\* C19: spendCoins(n) with n greater than the coins held returns false and
\* leaves coins, plant counts and water unchanged; with 0 < n <= coins it
\* returns true and reduces the coins by exactly n; with n <= 0 it returns true
\* and changes nothing
C19_SpendCoinsAtomic ==
    [][(ret'.op = "spendCoins") =>
        IF ret'.n > inventory.totalCoins
        THEN ~ret'.ok /\ inventory' = inventory
        ELSE IF ret'.n > 0
        THEN /\ ret'.ok
             /\ inventory'.totalCoins = inventory.totalCoins - ret'.n
             /\ inventory'.plantCounts = inventory.plantCounts
             /\ inventory'.currentWaterAmount = inventory.currentWaterAmount
        ELSE ret'.ok /\ inventory' = inventory
    ]_vars

\* spendCoins has just refused an amount greater than the coins held, with
\* coins and plants in the inventory
C19_Witness ==
    /\ ret.op = "spendCoins" /\ ~ret.ok
    /\ inventory.totalCoins > 0
    /\ ret.n > inventory.totalCoins
    /\ inventory.plantCounts["eye"] > 0

\* spendCoins has just spent all the coins held
C19_WitnessSpent ==
    /\ ret.op = "spendCoins" /\ ret.ok /\ ret.n > 0
    /\ inventory.totalCoins = 0

\* spendCoins has just been called with a negative amount
C19_WitnessNegative ==
    /\ ret.op = "spendCoins" /\ ret.ok /\ ret.n < 0
    /\ inventory.totalCoins > 0

\* the plants held and what they are worth, type by type
HeldCount(inv) ==
    inv.plantCounts["eye"] + inv.plantCounts["tentacle"] + inv.plantCounts["jaws"]
  + inv.plantCounts["spike"] + inv.plantCounts["orb"] + inv.plantCounts["mushroom"]
HeldWorth(inv) ==
    inv.plantCounts["eye"] * PlantPrice("eye")
  + inv.plantCounts["tentacle"] * PlantPrice("tentacle")
  + inv.plantCounts["jaws"] * PlantPrice("jaws")
  + inv.plantCounts["spike"] * PlantPrice("spike")
  + inv.plantCounts["orb"] * PlantPrice("orb")
  + inv.plantCounts["mushroom"] * PlantPrice("mushroom")

\* C20: a ship interaction with at least one harvested plant of positive total
\* value sets every per-type count to 0, increases the coins by exactly the sum
\* over the types of count * price and reports that sum as coinsGained; with
\* nothing to ship it sells nothing and leaves counts and coins unchanged
C20_ShippingSellsEverything ==
    [][(ret'.op = "ship") =>
        IF HeldCount(inventory) > 0 /\ HeldWorth(inventory) > 0
        THEN /\ ret'.ok
             /\ \A t \in DOMAIN inventory'.plantCounts : inventory'.plantCounts[t] = 0
             /\ inventory'.totalCoins = inventory.totalCoins + HeldWorth(inventory)
             /\ ret'.n = HeldWorth(inventory)
             /\ inventory'.currentWaterAmount = inventory.currentWaterAmount
        ELSE /\ ~ret'.ok
             /\ inventory'.plantCounts = inventory.plantCounts
             /\ inventory'.totalCoins = inventory.totalCoins
    ]_vars

\* a ship interaction has just sold plants of two prices for 12 coins, on top
\* of coins already held
C20_Witness ==
    /\ ret.op = "ship" /\ ret.ok
    /\ ret.n = 12
    /\ ret.x > 0
    /\ inventory.totalCoins = ret.x + 12
    /\ HeldCount(inventory) = 0

\* a ship interaction has just found nothing to ship
C20_WitnessNothing ==
    /\ ret.op = "ship" /\ ~ret.ok
    /\ HeldCount(inventory) = 0

ClockMutation == ret'.op \in {"updateTime", "setTimeToHour", "setWeather"}

\* C22: each call of updateTime, setTimeToHour or setWeather calls every
\* listener registered at the time exactly once, in the call, with a copy of the
\* state as it is after the mutation; a listener that assigns to the object it
\* receives changes neither the clock's state nor what the other listeners
\* receive; a listener removed is not called by later mutations
C22_ListenerNotification ==
    [][/\ ClockMutation =>
            /\ Len(delivered') = Len(listeners)
            /\ \A i \in 1..Len(listeners) :
                    /\ delivered'[i].listener = listeners[i]
                    /\ delivered'[i].state = timeState'
            /\ listeners' = listeners
       /\ (ret'.op = "removeListener") =>
            /\ timeState' = timeState
            /\ \E c \in Callbacks :
                    {listeners'[i] : i \in 1..Len(listeners')}
                        = {listeners[i] : i \in 1..Len(listeners)} \ {c}
    ]_vars

(***************************************************************************)
(* Further properties of the fade transition.                              *)
(***************************************************************************)
\* the midpoint of the transition held is due in the frame that ends the step
MidPointDue ==
    LET f == engine.fadeTransitionState
    IN  f.active /\ ~f.midPointFired /\ 2 * (now' - f.startTime) >= f.duration

\* what the callback held does, and nothing else, has been done in the step
OnlyCallbackHeldRan ==
    LET callback == engine.fadeTransitionState.onMidPointCallback
    IN  /\ timeState' = IF callback = "sleep" THEN SleepClock(timeState) ELSE timeState
        /\ engine'.pendingMaps =
              IF callback = "enterHouse" THEN Append(engine.pendingMaps, "interior")
              ELSE IF callback = "exitHouse" THEN Append(engine.pendingMaps, "exterior")
              ELSE engine.pendingMaps

\* C23: startFadeTransition called while a transition is active replaces its
\* start time, duration, midpoint-fired flag and callback; one transition is
\* held and nothing is queued: the callback of a transition replaced before its
\* midpoint is never called, and the callback of the new one is called once, at
\* its own midpoint
C23_TransitionOverwrite ==
    /\ [](midPointCalls <= 1)
    /\ [][/\ (ret'.op = "startFadeTransition") =>
                /\ engine'.fadeTransitionState.active
                /\ engine'.fadeTransitionState.startTime = now
                /\ engine'.fadeTransitionState.duration = ret'.n
                /\ ~engine'.fadeTransitionState.midPointFired
                /\ \E c \in FadeCallers :
                      /\ c.durationMs = ret'.n
                      /\ engine'.fadeTransitionState.onMidPointCallback = c.callback
                /\ midPointCalls' = 0
                /\ timeState' = timeState
                /\ engine'.pendingMaps = engine.pendingMaps
          /\ (ret'.op = "fadeFrame") =>
                /\ ret'.ok <=> MidPointDue
                /\ MidPointDue => (OnlyCallbackHeldRan /\ midPointCalls' = 1)
                /\ ~MidPointDue => /\ timeState' = timeState
                                   /\ engine'.pendingMaps = engine.pendingMaps
                                   /\ midPointCalls' = midPointCalls
         ]_vars

\* a transition has just been started in place of one that was active and had
\* not reached its midpoint
C23_Witness ==
    /\ ret.op = "startFadeTransition" /\ ret.ok
    /\ engine.fadeTransitionState.startTime = now
    /\ now > 0
    /\ ~engine.fadeTransitionState.midPointFired

\* the callback of a bed transition started 100 ms into the run has just been
\* called, at its midpoint, with no map requested by any door transition
C23_WitnessFired ==
    /\ ret.op = "fadeFrame" /\ ret.ok
    /\ engine.fadeTransitionState.onMidPointCallback = "sleep"
    /\ engine.fadeTransitionState.startTime = 100
    /\ now = 500
    /\ midPointCalls = 1
    /\ engine.pendingMaps = <<>>
    /\ ~engine.isInsideBuilding

(***************************************************************************)
(* Further properties of the motion controller: facing and speed under     *)
(* the keys held down.                                                     *)
(***************************************************************************)
\* the input of the frame just played, before normalisation: -1, 0 or 1
HorizontalKeys(keys) ==
    (IF "d" \in keys THEN 1 ELSE 0) - (IF "a" \in keys THEN 1 ELSE 0)
VerticalKeys(keys) ==
    (IF "s" \in keys THEN 1 ELSE 0) - (IF "w" \in keys THEN 1 ELSE 0)
OverrideDown(keys) == keys \cap {"1", "2", "3", "4"} # {}

\* the facing the movement of the frame gives: left or right for a purely
\* horizontal input, else up or down by the sign of the vertical component
MovementFacing(keys) ==
    IF VerticalKeys(keys) = 0
    THEN (IF HorizontalKeys(keys) > 0 THEN directionRight ELSE directionLeft)
    ELSE (IF VerticalKeys(keys) > 0 THEN directionDown ELSE directionUp)

KeysMoving(keys) == HorizontalKeys(keys) # 0 \/ VerticalKeys(keys) # 0

\* C24, as stated: with no net directional input and no override key down the
\* facing row is unchanged; in a frame with movement the facing is left or
\* right only for a purely horizontal input and otherwise up or down by the
\* sign of the vertical component
C24_FacingAsStated ==
    [][(ret'.op = "updatePlayerMovement") =>
        /\ (~KeysMoving(pressedKeys') /\ ~OverrideDown(pressedKeys'))
              => playerCharacter'.currentRow = playerCharacter.currentRow
        /\ KeysMoving(pressedKeys')
              => playerCharacter'.currentRow = MovementFacing(pressedKeys')
    ]_vars

\* C24, amended: the same in the frames with no override key down; with an
\* override key down the facing is that of the key, 4 before 3 before 2 before
\* 1, moving or not
C24_Facing ==
    [][(ret'.op = "updatePlayerMovement") =>
        /\ (~KeysMoving(pressedKeys') /\ ~OverrideDown(pressedKeys'))
              => playerCharacter'.currentRow = playerCharacter.currentRow
        /\ (KeysMoving(pressedKeys') /\ ~OverrideDown(pressedKeys'))
              => playerCharacter'.currentRow = MovementFacing(pressedKeys')
        /\ OverrideDown(pressedKeys')
              => playerCharacter'.currentRow =
                    IF "4" \in pressedKeys' THEN directionRight
                    ELSE IF "3" \in pressedKeys' THEN directionDown
                    ELSE IF "2" \in pressedKeys' THEN directionLeft
                    ELSE directionUp
    ]_vars

\* a diagonal frame has just been played, up and to the right, and the player
\* faces up
C24_Witness ==
    /\ ret.op = "updatePlayerMovement" /\ ret.ok
    /\ pressedKeys = {"w", "d"}
    /\ playerCharacter.currentRow = directionUp
    /\ playerCharacter.xPosition > ret.x
    /\ playerCharacter.yPosition < ret.y

\* a frame with opposite keys cancelling has just been played by a player who
\* faced left: the player stands and still faces left
C24_WitnessIdle ==
    /\ ret.op = "updatePlayerMovement" /\ ret.ok
    /\ pressedKeys = {"a", "d"}
    /\ playerCharacter.currentRow = directionLeft
    /\ ~playerCharacter.isMoving

\* a frame moving down with the override key 2 down has just been played: the
\* player has moved down and faces left
C24_WitnessOverride ==
    /\ ret.op = "updatePlayerMovement" /\ ret.ok
    /\ pressedKeys = {"s", "2"}
    /\ playerCharacter.currentRow = directionLeft
    /\ playerCharacter.yPosition > ret.y

\* n is m / sqrt(2), rounded down to a whole number
IsOverSqrt2(n, m) == n >= 0 /\ 2 * n * n <= m * m /\ m * m < 2 * (n + 1) * (n + 1)

\* the position (x, y) is one constrainToCanvas leaves alone
WithinCanvas(x, y) ==
    \/ ~SpriteReady(spriteFrame)
    \/ LET halfWidth == DisplaySize(spriteFrame.width) \div 2
           halfHeight == DisplaySize(spriteFrame.height) \div 2
       IN  /\ x >= halfWidth /\ x <= canvasRef.width - halfWidth
           /\ y >= halfHeight /\ y <= canvasRef.height - halfHeight

\* C25: for every combination of the directional keys with input on both axes
\* each component is scaled by 1 / sqrt(2): absent collisions and clamping the
\* player moves, on each axis, by the straight displacement of the frame
\* (movementSpeed * delta) over sqrt(2), so the displacement is as long as a
\* purely horizontal or vertical one; with input on one axis the player moves
\* by the straight displacement
C25_DiagonalNormalization ==
    [][(ret'.op = "updatePlayerMovement") =>
        LET h == HorizontalKeys(pressedKeys')
            v == VerticalKeys(pressedKeys')
            input == calculateMovementInput(pressedKeys')
            straight == Displacement(InputUnit, ret'.n)
            dx == playerCharacter'.xPosition - playerCharacter.xPosition
            dy == playerCharacter'.yPosition - playerCharacter.yPosition
        IN  /\ (h # 0 /\ v # 0) =>
                /\ IsOverSqrt2(Abs(input.horizontalMovement), InputUnit)
                /\ IsOverSqrt2(Abs(input.verticalMovement), InputUnit)
                /\ Sign(input.horizontalMovement) = h
                /\ Sign(input.verticalMovement) = v
            /\ WithinCanvas(playerCharacter.xPosition + Displacement(input.horizontalMovement, ret'.n),
                            playerCharacter.yPosition + Displacement(input.verticalMovement, ret'.n)) =>
                /\ (h # 0 /\ v # 0) =>
                      /\ IsOverSqrt2(Abs(dx), straight) /\ Sign(dx) = h
                      /\ IsOverSqrt2(Abs(dy), straight) /\ Sign(dy) = v
                /\ (h # 0 /\ v = 0) => (dx = h * straight /\ dy = 0)
                /\ (h = 0 /\ v # 0) => (dx = 0 /\ dy = v * straight)
    ]_vars

\* a diagonal frame, down and to the left, has just been played with the
\* sprite's dimensions initialised, and the player was not clamped
C25_Witness ==
    /\ ret.op = "updatePlayerMovement" /\ ret.ok
    /\ pressedKeys = {"s", "a"}
    /\ playerCharacter.xPosition < ret.x
    /\ ret.x - playerCharacter.xPosition = playerCharacter.yPosition - ret.y
    /\ IsOverSqrt2(ret.x - playerCharacter.xPosition, Displacement(InputUnit, ret.n))

AwakeSinceSeven(st, ts) ==
    st.lastSleepTime <= (ts.day - 1) * TicksPerDay + HourTicks(7)

\* C27: on every day on which update() is called at the sleepReminderHour and
\* the player has not slept since waking at 7 AM that day, the days that began
\* with a 7 AM wake-up included, the reminder is emitted exactly once that day:
\* never twice on a day, and never skipped
C27_ReminderOncePerDay ==
    [][(ret'.op = "update") =>
        LET r == StaminaUpdate(timeState, stamina)
            currentTime == getCurrentGameTime(timeState)
        IN  /\ r.reminded => stamina.lastReminderDay < currentTime.day
            /\ r.reminded => stamina'.lastReminderDay >= currentTime.day
            /\ (currentTime.hour = sleepReminderHour /\ AwakeSinceSeven(stamina, timeState))
                  => (r.reminded \/ stamina.lastReminderDay = currentTime.day)
    ]_vars

\* the stamina system has the default configuration
DefaultConfiguration == stamina.maximum = 100 * StaminaUnit

\* C28: with the default configuration, for any interleaving of updateTime,
\* sleep() and update() calls, every update() returns with current > 0:
\* whenever the stamina is computed as 0, lastPenaltyDay is less than the
\* clock's day, so the penalty and the auto-sleep are not suppressed
C28_ExhaustionNeverPending ==
    /\ []((DefaultConfiguration /\ ret.op = "update") => stamina.current > 0)
    /\ [][(DefaultConfiguration /\ ret'.op = "update"
             /\ StaminaUpdate(timeState, stamina).exhausted)
            => /\ stamina.lastPenaltyDay < timeState.day
               /\ Len(penaltyLog') = Len(penaltyLog) + 1
               /\ stamina'.current = stamina'.maximum
          ]_vars

\* with the default configuration update() has just found the stamina at 0 for
\* the second time, a day after the first, and put the player to sleep again
C28_Witness ==
    /\ DefaultConfiguration
    /\ ret.op = "update" /\ ret.ok
    /\ Len(penaltyLog) = 2
    /\ penaltyLog[1].day + 1 = penaltyLog[2].day
    /\ stamina.lastPenaltyDay = penaltyLog[2].day
    /\ stamina.current = stamina.maximum

(***************************************************************************)
(* Harvesting.                                                             *)
(***************************************************************************)
\* the plants of the registry that a step takes out of it
PlantsRemoved ==
    { i \in DOMAIN plantedEntities :
        IndexOfPlant(plantedEntities', plantedEntities[i].id) = 0 }

\* plants ever planted that are no longer in the registry
RemovedSoFar == (nextId - 1) - Len(plantedEntities)

\* items sold: every plant grown here is an eye plant and coins come from
\* the ship alone
ItemsSold == inventory.totalCoins \div PlantPrice("eye")

\* C29: removePlant(ref) returns true and removes exactly that entity when it
\* is in the registry, and returns false without change otherwise; a frame of
\* the game adds to the harvested count of a type exactly one per plant of
\* that type it removes, however many slash effects targeted the plant or
\* whether it was already removed, every plant it removes has hasGrown, and
\* the harvested counts plus the items sold never exceed the plants removed
C29_HarvestOnce ==
    /\ [](TotalPlantCount(inventory) + ItemsSold <= RemovedSoFar)
    /\ [][ /\ ret'.op = "remove" =>
               /\ ret'.ok = (IndexOfPlant(plantedEntities, ret'.n) # 0)
               /\ plantedEntities'
                     = SelectSeq(plantedEntities, LAMBDA p : p.id # ret'.n)
               /\ ~ret'.ok => plantedEntities' = plantedEntities
               /\ ret'.ok => Len(plantedEntities') = Len(plantedEntities) - 1
               /\ inventory' = inventory
           /\ ret'.op = "gameLoop" =>
               /\ \A ty \in DOMAIN inventory.plantCounts :
                     inventory'.plantCounts[ty] - inventory.plantCounts[ty]
                       = Cardinality({ i \in PlantsRemoved :
                                         plantedEntities[i].plantType = ty })
               /\ \A i \in PlantsRemoved : plantedEntities[i].hasGrown ]_vars

\* a second slash effect is still playing on a plant that the first has
\* already removed and added to the inventory
C29_Witness ==
    /\ ret.op = "gameLoop"
    /\ inventory.plantCounts["eye"] = 1
    /\ \E i \in DOMAIN engine.activeVisualEffects :
          IndexOfPlant(plantedEntities, engine.activeVisualEffects[i].targetPlant) = 0

\* that effect has finished too, and the plant was counted once
C29_WitnessFinished ==
    /\ ret.op = "gameLoop"
    /\ frames = MaxFarmFrames
    /\ engine.activeVisualEffects = <<>>
    /\ engine.lastHarvestTime = now - 400
    /\ inventory.plantCounts["eye"] = 1
    /\ RemovedSoFar = 1

\* removePlant called for a plant that a harvest has already removed
C29_WitnessAbsent ==
    /\ ret.op = "remove"
    /\ ~ret.ok
    /\ ret.n < nextId
    /\ TotalPlantCount(inventory) + ItemsSold = 1

(***************************************************************************)
(* The shop.                                                               *)
(***************************************************************************)
SeedTypes == DOMAIN InitialInventory.plantCounts

SlotsOfType(slots, type) ==
    { i \in 1..Len(slots) : slots[i].kind = "seed" /\ slots[i].plantType = type }

\* the inventory bar's count of a seed type
SeedCount(slots, type) ==
    SumOver([i \in 1..Len(slots) |-> slots[i].count], SlotsOfType(slots, type))

\* Enter newly pressed in the step just taken by handleShopInput
EnterPressed ==
    /\ ret'.op = "handleShopInput"
    /\ "enter" \in pressedKeys'
    /\ ~engine.wasEnterKeyPressed

\* C30: Enter pressed in the open shop either, with coins >= price, reduces
\* the coins by exactly the selected item's price and raises the bar's count
\* of that seed type by exactly one, or, with coins < price, changes neither
\* coins nor slots; coins are never spent without a seed added, since in every
\* state each seed type occupies at most one slot and the bar has a free slot
C30_PurchaseAtomic ==
    /\ [](\A type \in SeedTypes :
            Cardinality(SlotsOfType(engine.playerInventorySlots, type)) <= 1)
    /\ [](\E i \in 1..Len(engine.playerInventorySlots) :
            engine.playerInventorySlots[i] = NoItem)
    /\ [][EnterPressed =>
            LET item == engine.availableShopItems[engine'.selectedShopItemIndex + 1]
            IN  IF inventory.totalCoins >= item.price
                THEN /\ inventory'.totalCoins = inventory.totalCoins - item.price
                     /\ \A type \in SeedTypes :
                           SeedCount(engine'.playerInventorySlots, type)
                             = SeedCount(engine.playerInventorySlots, type)
                               + (IF type = item.plantType THEN 1 ELSE 0)
                ELSE /\ inventory'.totalCoins = inventory.totalCoins
                     /\ engine'.playerInventorySlots = engine.playerInventorySlots
          ]_vars

\* a seed of a type the bar did not hold was bought into a free slot
C30_Witness ==
    /\ ret.op = "handleShopInput"
    /\ ret.ok
    /\ \E i \in 5..Len(engine.playerInventorySlots) :
          engine.playerInventorySlots[i].kind = "seed"

\* Enter pressed without the coins for the item
C30_WitnessRefused ==
    /\ ret.op = "handleShopInput"
    /\ ret.x = 1
    /\ ~ret.ok

\* a seed bought again after the slot of its type was emptied by planting
C30_WitnessRefilled ==
    /\ ret.op = "handleShopInput"
    /\ ret.ok
    /\ Len(plantedEntities) = 1
    /\ plantedEntities[1].plantType = "mushroom"
    /\ SeedCount(engine.playerInventorySlots, "mushroom") = 1

====
